---- MODULE Spec2Model ----
(***************************************************************************)
(* A model of the poll state machines of handy_async: the primitive        *)
(* read/write futures, the exact-transfer futures and the combinator       *)
(* futures that thread a stream through sub-operations.  The repository    *)
(* holds several iterations of the same design; the variable `ver` selects *)
(* the iteration whose code is executed:                                   *)
(*   "io"     src/io/async_read.rs, src/io/async_write.rs,                 *)
(*            src/matcher/async_match.rs, src/pattern/async_match_tuple.rs *)
(*   "ioread" src/io/read/mod.rs, src/io/write/mod.rs,                     *)
(*            src/io/read/combinators.rs                                   *)
(*   "async"  src/async/read.rs, src/async/write.rs                        *)
(*   "read2"  src/async/read2.rs                                           *)
(*   "pattern" the pattern combinators of src/matcher/async_match.rs and   *)
(*            src/io/read_pattern.rs over the streams of "io"              *)
(*   "window" pattern::Window of src/pattern/mod.rs, used on its own       *)
(*   "stream" AsyncRead::async_read_stream of src/io/read/mod.rs           *)
(*   "select" FutureExt::select_either of src/future.rs over two reads of  *)
(*            "io"                                                         *)
(*   "fixnum" the integer patterns of src/io/read_pattern.rs and           *)
(*            src/io/write_pattern.rs                                      *)
(*   "prefixed" the length-prefixed patterns Str and Vector of             *)
(*            src/async/read.rs                                            *)
(*   "string" the string patterns of src/io/read_pattern.rs over streams   *)
(*            that may hold bytes that are not UTF-8                       *)
(* A stream is a value that moves with the structure that owns it, as the  *)
(* reader/writer does in the code; a dropped stream is in no structure.    *)
(***************************************************************************)
EXTENDS Integers, Sequences, FiniteSets, TLC

\* ---------------------------------------------------------------- bounds
MaxData == 3
MaxBuf == 3
MaxScript == 2
MaxChunk == 2
MaxCap == 2
MaxPolls == 6
WordBits == 3

\* usize::MAX of a machine word of WordBits bits.
UsizeMax == 2 ^ WordBits - 1

Bytes == {1, 2}

\* '\n' as u8
NewLine == 10

\* A byte that no UTF-8 string holds.
NotUtf8 == 255

VARIABLES ver, op, out, caller, pc, input, req, lastwb, lastcalls, npolls

vars == <<ver, op, out, caller, pc, input, req, lastwb, lastcalls, npolls>>

\* ------------------------------------------------------- generic helpers
Min(a, b) == IF a < b THEN a ELSE b

\* let x = ..; F(x): a value computed once and then used by name.
With(x, F(_)) == F(x)

RECURSIVE SeqsUpTo(_, _)
SeqsUpTo(S, n) ==
  IF n = 0 THEN {<<>>}
  ELSE LET prev == SeqsUpTo(S, n - 1)
       IN prev \cup {Append(s, x) : s \in {t \in prev : Len(t) = n - 1}, x \in S}

Zeros(n) == [i \in 1..n |-> 0]

None == [k |-> "None"]
Some(x) == [k |-> "Some", v |-> x]

NotReady == [k |-> "NotReady"]
Ready(item) == [k |-> "Ready", item |-> item]
Panic(msg) == [k |-> "Panic", msg |-> msg]

\* ------------------------------------------------------------ the stream
\* One answer of the underlying reader/writer to a read/write call.
Responses ==
  {[k |-> "WouldBlock"], [k |-> "Err"]} \cup {[k |-> "Ok", n |-> n] : n \in 1..MaxChunk}

Scripts == SeqsUpTo(Responses, MaxScript)

Streams ==
  [data : SeqsUpTo(Bytes, MaxData), pos : {0}, sink : {<<>>}, cap : 0..MaxCap,
   script : Scripts, calls : {0}, wbs : {0}]

StreamError == [kind |-> "Other", from |-> "stream"]

\* std::io::Read::read on a buffer of n bytes.  The script gives the next
\* answers of the stream; once it is used up the stream hands over all it can.
StreamRead(r, n) ==
  LET rem == Len(r.data) - r.pos
      r1 == [r EXCEPT !.calls = @ + 1]
      ok(sz, rr) == [k |-> "Ok", r |-> [rr EXCEPT !.pos = @ + sz], size |-> sz,
                     bytes |-> SubSeq(r.data, r.pos + 1, r.pos + sz)]
  IN IF r.script = <<>> THEN ok(Min(n, rem), r1)
     ELSE LET h == Head(r.script)
              r2 == [r1 EXCEPT !.script = Tail(@)]
          IN CASE h.k = "WouldBlock" -> [k |-> "WouldBlock", r |-> [r2 EXCEPT !.wbs = @ + 1]]
               [] h.k = "Err" -> [k |-> "Err", r |-> r2, e |-> StreamError]
               [] OTHER -> ok(Min(h.n, Min(n, rem)), r2)

\* std::io::Write::write of the bytes bs into a sink of capacity cap.
StreamWrite(w, bs) ==
  LET room == w.cap - Len(w.sink)
      w1 == [w EXCEPT !.calls = @ + 1]
      ok(sz, ww) == [k |-> "Ok", r |-> [ww EXCEPT !.sink = @ \o SubSeq(bs, 1, sz)], size |-> sz]
  IN IF w.script = <<>> THEN ok(Min(Len(bs), room), w1)
     ELSE LET h == Head(w.script)
              w2 == [w1 EXCEPT !.script = Tail(@)]
          IN CASE h.k = "WouldBlock" -> [k |-> "WouldBlock", r |-> [w2 EXCEPT !.wbs = @ + 1]]
               [] h.k = "Err" -> [k |-> "Err", r |-> w2, e |-> StreamError]
               [] OTHER -> ok(Min(h.n, Min(Len(bs), room)), w2)

\* --------------------------------------------------------------- buffers
\* A plain buffer B (an array or a Vec<u8>).
Buf(bs) == [k |-> "Buf", bytes |-> bs]

\* pattern::Window (src/pattern/mod.rs): inner buffer with start/end cursors.
Window_new_mut(buf) == [k |-> "Window", inner |-> buf, start |-> 0, end |-> Len(buf.bytes)]
Window_new_ref(buf) == [k |-> "Window", inner |-> buf, start |-> 0, end |-> Len(buf.bytes)]

Window_skip(w, size) ==
  IF w.start + size <= w.end THEN [w EXCEPT !.start = @ + size]
  ELSE Panic("assertion failed: self.start + size <= self.end")

Window_into_inner(w) == w.inner

\* Window::skip that takes size for the new start.
Window_skip_outcomes_Absolute(w, size) ==
  {IF size <= w.end THEN [w EXCEPT !.start = size]
   ELSE Panic("assertion failed: self.start + size <= self.end")}

\* Window::skip on machine words.  When self.start + size passes usize::MAX a
\* build with overflow checks panics and a build without them goes on with
\* the sum wrapped around, in the assertion and in the assignment.
Window_skip_outcomes(w, size) ==
  IF w.start + size <= UsizeMax THEN {Window_skip(w, size)}
  ELSE {Panic("attempt to add with overflow"),
        LET sum == (w.start + size) % (UsizeMax + 1)
        IN IF sum <= w.end THEN [w EXCEPT !.start = sum]
           ELSE Panic("assertion failed: self.start + size <= self.end")}

Window_take(w, size) ==
  CASE ~(size <= w.end) -> Panic("assertion failed: size <= self.end")
    [] ~(w.start <= w.end - size) -> Panic("assertion failed: self.start <= self.end - size")
    [] OTHER -> [w EXCEPT !.end = @ - size]

Window_set_start(w, start) ==
  IF start <= w.end THEN [w EXCEPT !.start = start]
  ELSE Panic("assertion failed: start <= self.end")

\* The second assertion compares with the length of the window, not of the
\* buffer: as_ref() is the window's part of the buffer.
Window_set_end(w, end) ==
  CASE ~(end >= w.start) -> Panic("assertion failed: end >= self.start")
    [] ~(end <= w.end - w.start) -> Panic("assertion failed: end <= self.as_ref().len()")
    [] OTHER -> [w EXCEPT !.end = end]

\* async::Window (src/async/mod.rs): inner buffer with one offset cursor.
OffWindow_new(buf) == [k |-> "OffWindow", inner |-> buf, offset |-> 0]

\* AsRef<[u8]> / AsMut<[u8]>: the active region of a buffer.
AsRef(b) ==
  CASE b.k = "Buf" -> b.bytes
    [] b.k = "Window" -> SubSeq(b.inner.bytes, b.start + 1, b.end)
    [] b.k = "OffWindow" -> SubSeq(b.inner.bytes, b.offset + 1, Len(b.inner.bytes))

\* The effect of a read that stored the bytes bs at the front of as_mut().
Overwrite(s, at, bs) ==
  [i \in 1..Len(s) |-> IF i > at /\ i <= at + Len(bs) THEN bs[i - at] ELSE s[i]]

\* Fill that stores at the front of the inner buffer, whatever the cursor.
Fill_AtFront(b, bs) ==
  CASE b.k = "Buf" -> [b EXCEPT !.bytes = Overwrite(@, 0, bs)]
    [] b.k = "Window" -> [b EXCEPT !.inner.bytes = Overwrite(@, 0, bs)]
    [] b.k = "OffWindow" -> [b EXCEPT !.inner.bytes = Overwrite(@, 0, bs)]

Fill(b, bs) ==
  CASE b.k = "Buf" -> [b EXCEPT !.bytes = Overwrite(@, 0, bs)]
    [] b.k = "Window" -> [b EXCEPT !.inner.bytes = Overwrite(@, b.start, bs)]
    [] b.k = "OffWindow" -> [b EXCEPT !.inner.bytes = Overwrite(@, b.offset, bs)]

\* ----------------------------------------------------------------- errors
\* error::AsyncError / io::AsyncIoError: an error paired with the state.
AsyncError_new(state, error) == [k |-> "Err", state |-> state, error |-> error]

\* An error that carries no state (Error = io::Error in src/async).
IoErr(error) == [k |-> "Err", error |-> error]

UnexpectedEof(who) == [kind |-> "UnexpectedEof", from |-> who]

\* ------------------------------------------- src/io/async_read.rs ("io")
async_read(r, buf) == [k |-> "ReadBytes", inner |-> Some([r |-> r, b |-> buf])]

\* ReadBytes::poll that fails on would-block as on any other error.
ReadBytes_poll_WouldBlockIsError(self) ==
  IF self.inner.k = "None" THEN [self |-> self, res |-> Panic("Cannot poll ReadBytes twice")]
  ELSE With(StreamRead(self.inner.v.r, Len(AsRef(self.inner.v.b))), LAMBDA c :
       LET inner == self.inner.v.r
           buf == self.inner.v.b
       IN CASE c.k = "Ok" ->
                 [self |-> [self EXCEPT !.inner = None],
                  res |-> Ready([r |-> c.r, b |-> Fill(buf, c.bytes), size |-> c.size])]
            [] OTHER ->
                 [self |-> [self EXCEPT !.inner = None],
                  res |-> AsyncError_new([r |-> c.r, b |-> buf],
                                         IF c.k = "Err" THEN c.e
                                         ELSE [kind |-> "WouldBlock", from |-> "stream"])])

\* ReadBytes::poll that calls read once more when the stream would block.
ReadBytes_poll_Retry(self) ==
  IF self.inner.k = "None" THEN [self |-> self, res |-> Panic("Cannot poll ReadBytes twice")]
  ELSE With(StreamRead(self.inner.v.r, Len(AsRef(self.inner.v.b))), LAMBDA c0 :
       With(IF c0.k = "WouldBlock" THEN StreamRead(c0.r, Len(AsRef(self.inner.v.b))) ELSE c0,
            LAMBDA c :
       LET buf == self.inner.v.b
       IN CASE c.k = "Ok" ->
                 [self |-> [self EXCEPT !.inner = None],
                  res |-> Ready([r |-> c.r, b |-> Fill(buf, c.bytes), size |-> c.size])]
            [] c.k = "WouldBlock" ->
                 [self |-> [self EXCEPT !.inner = Some([r |-> c.r, b |-> buf])],
                  res |-> NotReady]
            [] OTHER ->
                 [self |-> [self EXCEPT !.inner = None],
                  res |-> AsyncError_new([r |-> c.r, b |-> buf], c.e)]))

ReadBytes_poll(self) ==
  IF self.inner.k = "None" THEN [self |-> self, res |-> Panic("Cannot poll ReadBytes twice")]
  ELSE With(StreamRead(self.inner.v.r, Len(AsRef(self.inner.v.b))), LAMBDA c :
       LET inner == self.inner.v.r
           buf == self.inner.v.b
       IN CASE c.k = "Ok" ->
                 [self |-> [self EXCEPT !.inner = None],
                  res |-> Ready([r |-> c.r, b |-> Fill(buf, c.bytes), size |-> c.size])]
            [] c.k = "WouldBlock" ->
                 [self |-> [self EXCEPT !.inner = Some([r |-> c.r, b |-> buf])],
                  res |-> NotReady]
            [] OTHER ->
                 [self |-> [self EXCEPT !.inner = None],
                  res |-> AsyncError_new([r |-> c.r, b |-> buf], c.e)])

async_read_non_empty(r, buf) == [k |-> "ReadNonEmpty", f |-> async_read(r, buf)]

ReadNonEmpty_poll(self) ==
  With(ReadBytes_poll(self.f), LAMBDA p :
    LET me == [self EXCEPT !.f = p.self]
    IN IF p.res.k = "Ready"
     THEN IF p.res.item.size = 0 /\ AsRef(p.res.item.b) # <<>>
          THEN [self |-> me,
                res |-> AsyncError_new([r |-> p.res.item.r, b |-> p.res.item.b],
                                       UnexpectedEof("ReadNonEmpty"))]
          ELSE [self |-> me, res |-> p.res]
     ELSE [self |-> me, res |-> p.res])

async_read_exact(r, buf) ==
  [k |-> "ReadExact", f |-> async_read_non_empty(r, Window_new_mut(buf))]

\* ReadExact::poll that is content with the first read that stores something.
ReadExact_poll_Partial(self) ==
  With(ReadNonEmpty_poll(self.f), LAMBDA p :
    LET me == [self EXCEPT !.f = p.self]
    IN CASE p.res.k = "Ready" ->
            LET b == Window_skip(p.res.item.b, p.res.item.size)
            IN IF b.k = "Panic" THEN [self |-> me, res |-> b]
               ELSE [self |-> me, res |-> Ready([r |-> p.res.item.r, b |-> Window_into_inner(b)])]
       [] p.res.k = "Err" ->
            [self |-> me,
             res |-> AsyncError_new([r |-> p.res.state.r, b |-> Window_into_inner(p.res.state.b)],
                                    p.res.error)]
       [] OTHER -> [self |-> me, res |-> p.res])

RECURSIVE ReadExact_poll(_)
ReadExact_poll(self) ==
  With(ReadNonEmpty_poll(self.f), LAMBDA p :
    LET me == [self EXCEPT !.f = p.self]
    IN CASE p.res.k = "Ready" ->
            LET b == Window_skip(p.res.item.b, p.res.item.size)
            IN IF b.k = "Panic" THEN [self |-> me, res |-> b]
               ELSE IF AsRef(b) = <<>>
               THEN [self |-> me, res |-> Ready([r |-> p.res.item.r, b |-> Window_into_inner(b)])]
               ELSE ReadExact_poll([self EXCEPT !.f = async_read_non_empty(p.res.item.r, b)])
       [] p.res.k = "Err" ->
            [self |-> me,
             res |-> AsyncError_new([r |-> p.res.state.r, b |-> Window_into_inner(p.res.state.b)],
                                    p.res.error)]
       [] OTHER -> [self |-> me, res |-> p.res])

\* ------------------------------------------ src/io/async_write.rs ("io")
async_write(w, buf) == [k |-> "WriteBytes", inner |-> Some([r |-> w, b |-> buf])]

\* WriteBytes::poll that reports NotReady once its state has been taken.
WriteBytes_poll_NoPanic(self) ==
  IF self.inner.k = "None" THEN [self |-> self, res |-> NotReady]
  ELSE With(StreamWrite(self.inner.v.r, AsRef(self.inner.v.b)), LAMBDA c :
       LET w == self.inner.v.r
           b == self.inner.v.b
       IN CASE c.k = "Ok" ->
                 [self |-> [self EXCEPT !.inner = None],
                  res |-> Ready([r |-> c.r, b |-> b, size |-> c.size])]
            [] c.k = "WouldBlock" ->
                 [self |-> [self EXCEPT !.inner = Some([r |-> c.r, b |-> b])],
                  res |-> NotReady]
            [] OTHER ->
                 [self |-> [self EXCEPT !.inner = None],
                  res |-> AsyncError_new([r |-> c.r, b |-> b], c.e)])

WriteBytes_poll(self) ==
  IF self.inner.k = "None" THEN [self |-> self, res |-> Panic("Cannot poll WriteBytes twice")]
  ELSE With(StreamWrite(self.inner.v.r, AsRef(self.inner.v.b)), LAMBDA c :
       LET w == self.inner.v.r
           b == self.inner.v.b
       IN CASE c.k = "Ok" ->
                 [self |-> [self EXCEPT !.inner = None],
                  res |-> Ready([r |-> c.r, b |-> b, size |-> c.size])]
            [] c.k = "WouldBlock" ->
                 [self |-> [self EXCEPT !.inner = Some([r |-> c.r, b |-> b])],
                  res |-> NotReady]
            [] OTHER ->
                 [self |-> [self EXCEPT !.inner = None],
                  res |-> AsyncError_new([r |-> c.r, b |-> b], c.e)])

async_write_all(w, buf) == [k |-> "WriteAll", f |-> async_write(w, Window_new_ref(buf))]

\* WriteAll::poll that starts over from the whole buffer after a suspension.
RECURSIVE WriteAll_poll_Restart(_)
WriteAll_poll_Restart(self) ==
  With(WriteBytes_poll(self.f), LAMBDA p :
    LET me == [self EXCEPT !.f = p.self]
    IN CASE p.res.k = "Ready" ->
            LET b == Window_skip(p.res.item.b, p.res.item.size)
            IN IF b.k = "Panic" THEN [self |-> me, res |-> b]
               ELSE IF AsRef(b) = <<>>
               THEN [self |-> me, res |-> Ready([r |-> p.res.item.r, b |-> Window_into_inner(b)])]
               ELSE IF p.res.item.size = 0
               THEN [self |-> me,
                     res |-> AsyncError_new([r |-> p.res.item.r, b |-> Window_into_inner(b)],
                                            UnexpectedEof("WriteAll"))]
               ELSE WriteAll_poll_Restart([self EXCEPT !.f = async_write(p.res.item.r, b)])
       [] p.res.k = "Err" ->
            [self |-> me,
             res |-> AsyncError_new([r |-> p.res.state.r, b |-> Window_into_inner(p.res.state.b)],
                                    p.res.error)]
       [] p.res.k = "NotReady" ->
            [self |-> async_write_all(p.self.inner.v.r, Window_into_inner(p.self.inner.v.b)),
             res |-> p.res]
       [] OTHER -> [self |-> me, res |-> p.res])

\* WriteAll::poll that takes a write of zero bytes for the end of its work.
RECURSIVE WriteAll_poll_ZeroIsDone(_)
WriteAll_poll_ZeroIsDone(self) ==
  With(WriteBytes_poll(self.f), LAMBDA p :
    LET me == [self EXCEPT !.f = p.self]
    IN CASE p.res.k = "Ready" ->
            LET b == Window_skip(p.res.item.b, p.res.item.size)
            IN IF b.k = "Panic" THEN [self |-> me, res |-> b]
               ELSE IF AsRef(b) = <<>> \/ p.res.item.size = 0
               THEN [self |-> me, res |-> Ready([r |-> p.res.item.r, b |-> Window_into_inner(b)])]
               ELSE WriteAll_poll_ZeroIsDone([self EXCEPT !.f = async_write(p.res.item.r, b)])
       [] p.res.k = "Err" ->
            [self |-> me,
             res |-> AsyncError_new([r |-> p.res.state.r, b |-> Window_into_inner(p.res.state.b)],
                                    p.res.error)]
       [] OTHER -> [self |-> me, res |-> p.res])

RECURSIVE WriteAll_poll(_)
WriteAll_poll(self) ==
  With(WriteBytes_poll(self.f), LAMBDA p :
    LET me == [self EXCEPT !.f = p.self]
    IN CASE p.res.k = "Ready" ->
            LET b == Window_skip(p.res.item.b, p.res.item.size)
            IN IF b.k = "Panic" THEN [self |-> me, res |-> b]
               ELSE IF AsRef(b) = <<>>
               THEN [self |-> me, res |-> Ready([r |-> p.res.item.r, b |-> Window_into_inner(b)])]
               ELSE IF p.res.item.size = 0
               THEN [self |-> me,
                     res |-> AsyncError_new([r |-> p.res.item.r, b |-> Window_into_inner(b)],
                                            UnexpectedEof("WriteAll"))]
               ELSE WriteAll_poll([self EXCEPT !.f = async_write(p.res.item.r, b)])
       [] p.res.k = "Err" ->
            [self |-> me,
             res |-> AsyncError_new([r |-> p.res.state.r, b |-> Window_into_inner(p.res.state.b)],
                                    p.res.error)]
       [] OTHER -> [self |-> me, res |-> p.res])

\* ------------------------------------------- src/io/read/mod.rs ("ioread")
\* ReadBytes and ReadNonEmpty of this iteration have the code of the "io"
\* iteration with the error written as the tuple (R, B, io::Error).
IoRead_async_read_exact(r, buf) ==
  [k |-> "IoRead.ReadExact", f |-> async_read_non_empty(r, Window_new_mut(buf))]

RECURSIVE IoRead_ReadExact_poll(_)
IoRead_ReadExact_poll(self) ==
  With(ReadNonEmpty_poll(self.f), LAMBDA p :
    LET me == [self EXCEPT !.f = p.self]
    IN CASE p.res.k = "Ready" ->
            LET b == Window_skip(p.res.item.b, p.res.item.size)
            IN IF b.k = "Panic" THEN [self |-> me, res |-> b]
               ELSE IF AsRef(b) = <<>>
               THEN [self |-> me, res |-> Ready([r |-> p.res.item.r, b |-> Window_into_inner(b)])]
               ELSE IoRead_ReadExact_poll([self EXCEPT !.f = async_read_non_empty(p.res.item.r, b)])
       [] p.res.k = "Err" ->
            [self |-> me,
             res |-> AsyncError_new([r |-> p.res.state.r, b |-> Window_into_inner(p.res.state.b)],
                                    p.res.error)]
       [] OTHER -> [self |-> me, res |-> p.res])

\* ------------------------------------------- src/async/read.rs ("async")
Async_async_read(r, buf) == [k |-> "Async.Read", inner |-> Some([r |-> r, b |-> buf])]

Async_Read_poll(self) ==
  IF self.inner.k = "None" THEN [self |-> self, res |-> Panic("Cannot poll Read twice")]
  ELSE With(StreamRead(self.inner.v.r, Len(AsRef(self.inner.v.b))), LAMBDA c :
       LET reader == self.inner.v.r
           buf == self.inner.v.b
       IN CASE c.k = "Ok" ->
                 [self |-> [self EXCEPT !.inner = None],
                  res |-> Ready([r |-> c.r, b |-> Fill(buf, c.bytes), size |-> c.size])]
            [] c.k = "WouldBlock" ->
                 [self |-> [self EXCEPT !.inner = Some([r |-> c.r, b |-> buf])],
                  res |-> NotReady]
            [] OTHER ->
                 [self |-> [self EXCEPT !.inner = None], res |-> IoErr(c.e)])

Async_async_read_exact(r, buf) ==
  [k |-> "Async.ReadExact", f |-> Async_async_read(r, OffWindow_new(buf))]

Async_ReadExact_poll(self) ==
  With(Async_Read_poll(self.f), LAMBDA p :
    LET me == [self EXCEPT !.f = p.self]
    IN IF p.res.k = "Ready"
     THEN LET reader == p.res.item.r
              buf == p.res.item.b
              read_size == p.res.item.size
          IN IF read_size = 0 /\ buf.offset < Len(buf.inner.bytes)
             THEN [self |-> me, res |-> IoErr(UnexpectedEof("ReadExact"))]
             ELSE LET buf2 == [buf EXCEPT !.offset = @ + read_size]
                  IN IF buf2.offset = Len(buf2.inner.bytes)
                     THEN [self |-> me, res |-> Ready([r |-> reader, b |-> buf2.inner])]
                     ELSE [self |-> [self EXCEPT !.f = Async_async_read(reader, buf2)],
                           res |-> NotReady]
     ELSE [self |-> me, res |-> p.res])

\* ------------------------------------------ src/async/write.rs ("async")
Async_async_write(w, buf) == [k |-> "Async.Write", inner |-> Some([r |-> w, b |-> buf])]

Async_Write_poll(self) ==
  IF self.inner.k = "None" THEN [self |-> self, res |-> Panic("Cannot poll Write twice")]
  ELSE With(StreamWrite(self.inner.v.r, AsRef(self.inner.v.b)), LAMBDA c :
       LET writer == self.inner.v.r
           buf == self.inner.v.b
       IN CASE c.k = "Ok" ->
                 [self |-> [self EXCEPT !.inner = None],
                  res |-> Ready([r |-> c.r, b |-> buf, size |-> c.size])]
            [] c.k = "WouldBlock" ->
                 [self |-> [self EXCEPT !.inner = Some([r |-> c.r, b |-> buf])],
                  res |-> NotReady]
            [] OTHER ->
                 [self |-> [self EXCEPT !.inner = None], res |-> IoErr(c.e)])

Async_async_write_all(w, buf) ==
  [k |-> "Async.WriteAll", f |-> Async_async_write(w, OffWindow_new(buf))]

Async_WriteAll_poll(self) ==
  With(Async_Write_poll(self.f), LAMBDA p :
    LET me == [self EXCEPT !.f = p.self]
    IN IF p.res.k = "Ready"
     THEN LET buf == [p.res.item.b EXCEPT !.offset = @ + p.res.item.size]
          IN IF buf.offset = Len(buf.inner.bytes)
             THEN [self |-> me, res |-> Ready([r |-> p.res.item.r, b |-> buf.inner])]
             ELSE [self |-> [self EXCEPT !.f = Async_async_write(p.res.item.r, buf)],
                   res |-> NotReady]
     ELSE [self |-> me, res |-> p.res])

\* ------------------------------------------ src/async/read2.rs ("read2")
\* AsyncRead::on_read_ready is implemented outside the repository: the
\* readiness future resolves with the reader once the stream's next answer
\* is not would-block, and suspends (using up that answer) while it is.
on_read_ready(r) == [k |-> "OnReadReady", state |-> Some(r)]

OnReadReady_poll(self) ==
  IF self.state.k = "None" THEN [self |-> self, res |-> Panic("readiness future polled twice")]
  ELSE LET r == self.state.v
       IN IF r.script # <<>> /\ Head(r.script).k = "WouldBlock"
          THEN [self |-> [self EXCEPT !.state = Some([r EXCEPT !.script = Tail(@), !.wbs = @ + 1])],
                res |-> NotReady]
          ELSE [self |-> [self EXCEPT !.state = None], res |-> Ready(r)]

Read2_read(reader, buf) ==
  [k |-> "Read2.Read", future |-> on_read_ready(reader), buffer |-> Some(buf)]

Read2_Read_poll(self) ==
  With(OnReadReady_poll(self.future), LAMBDA p :
    LET me == [self EXCEPT !.future = p.self]
    IN IF p.res.k = "Ready"
     THEN IF self.buffer.k = "None"
          THEN [self |-> me, res |-> Panic("called Option::unwrap on a None value")]
          ELSE LET buf == self.buffer.v
                   c == StreamRead(p.res.item, Len(AsRef(buf)))
                   me2 == [me EXCEPT !.buffer = None]
               IN IF c.k = "Ok"
                  THEN [self |-> me2,
                        res |-> Ready([r |-> c.r, b |-> Fill(buf, c.bytes), size |-> c.size])]
                  ELSE [self |-> me2, res |-> IoErr(c.e)]
     ELSE [self |-> me, res |-> p.res])

Read2_read_exact(reader, buf) ==
  [k |-> "Read2.ReadExact", future |-> Read2_read(reader, OffWindow_new(buf))]

Read2_ReadExact_poll(self) ==
  With(Read2_Read_poll(self.future), LAMBDA p :
    LET me == [self EXCEPT !.future = p.self]
    IN IF p.res.k = "Ready"
     THEN LET reader == p.res.item.r
              read_size == p.res.item.size
              buf == [p.res.item.b EXCEPT !.offset = @ + read_size]
          IN IF read_size = 0
             THEN [self |-> me, res |-> IoErr([kind |-> "UnexpectedEof", from |-> "early eof"])]
             ELSE IF AsRef(buf) = <<>>
             THEN [self |-> me, res |-> Ready([r |-> reader, b |-> buf.inner])]
             ELSE [self |-> [self EXCEPT !.future = Read2_read(reader, buf)], res |-> NotReady]
     ELSE [self |-> me, res |-> p.res])

Read2_U8_read_pattern(reader) ==
  [k |-> "Read2.ReadU8", f |-> Read2_read_exact(reader, Buf(Zeros(1)))]

Read2_ReadU8_poll(self) ==
  With(Read2_ReadExact_poll(self.f), LAMBDA p :
    LET me == [self EXCEPT !.f = p.self]
    IN IF p.res.k = "Ready"
     THEN [self |-> me, res |-> Ready([r |-> p.res.item.r, v |-> p.res.item.b.bytes[1]])]
     ELSE [self |-> me, res |-> p.res])

\* (U8, U8).read_pattern(reader): ps holds the unbound second pattern, fs the
\* futures, os the first output.
Read2_Tuple2_read_pattern(reader) ==
  [k |-> "Read2.ReadTuple2", ps1 |-> Some("U8"),
   fs0 |-> Read2_U8_read_pattern(reader), fs1 |-> None, os0 |-> None]

Read2_ReadTuple2_poll(self) ==
  IF self.fs1.k = "Some"
  THEN With(Read2_ReadU8_poll(self.fs1.v), LAMBDA p :
       LET me == [self EXCEPT !.fs1 = Some(p.self)]
       IN IF p.res.k = "Ready"
          THEN IF self.os0.k = "None"
               THEN [self |-> me, res |-> Panic("called Option::unwrap on a None value")]
               ELSE [self |-> [me EXCEPT !.os0 = None],
                     res |-> Ready([r |-> p.res.item.r, v |-> <<self.os0.v, p.res.item.v>>])]
          ELSE [self |-> me, res |-> p.res])
  ELSE With(Read2_ReadU8_poll(self.fs0), LAMBDA p :
       LET me == [self EXCEPT !.fs0 = p.self]
       IN IF p.res.k = "Ready"
          THEN [self |-> [me EXCEPT !.os0 = Some(p.res.item.v), !.ps1 = None,
                              !.fs1 = Some(Read2_U8_read_pattern(p.res.item.r))],
                res |-> NotReady]
          ELSE [self |-> me, res |-> p.res])

\* ------------------------------------------------------------- patterns
\* Patterns are inert data (src/pattern/mod.rs, src/pattern/combinators_impl.rs).
\* Buf(bs) above is also the buffer pattern Buf<B>.
Chain(p0, p1) == [k |-> "Chain", p0 |-> p0, p1 |-> p1]
Tuple3(a, b, c) == [k |-> "Tuple3", a |-> a, b |-> b, c |-> c]
Branch(tag, p) == [k |-> "Branch", tag |-> tag, p |-> p]
Or(p0, p1) == [k |-> "Or", p0 |-> p0, p1 |-> p1]
Eos == [k |-> "Eos"]
StringP(bs) == [k |-> "String", bytes |-> bs]

\* pattern::read::Until, with its setters min_buffer_size and max_buffer_size
\* applied to the sizes given (both assert 0 < min <= max).
Until(pred, min, max) ==
  [k |-> "Until", pred |-> pred, min_buffer_size |-> min, max_buffer_size |-> max]
AndThen(p, f) == [k |-> "AndThen", p |-> p, f |-> f]
Then(p, f) == [k |-> "Then", p |-> p, f |-> f]
OrElse(p, f) == [k |-> "OrElse", p |-> p, f |-> f]
IterFold(ps, fold, acc) == [k |-> "IterFold", ps |-> ps, fold |-> fold, acc |-> acc]
Line == [k |-> "Line"]
Unit == [k |-> "Unit"]
\* Option<P> and Result<T, E> as patterns.
NoneP == [k |-> "NoneP"]
SomeP(p) == [k |-> "SomeP", p |-> p]
OkP(v) == [k |-> "OkP", v |-> v]
ErrP(e) == [k |-> "ErrP", e |-> e]

\* io::Result<T> as a value.
Ok(v) == [ok |-> TRUE, v |-> v]
Err(e) == [ok |-> FALSE, e |-> e]

CallerError == [kind |-> "Other", from |-> "caller"]

\* The closures a caller passes to and_then, then and or_else: each takes a
\* value, a result or an error and gives the next pattern.
Call(f, x) ==
  CASE f = "ReadLen" -> Buf(Zeros(x[1]))
    [] f = "Report" -> OkP(x)
    [] f = "ReadOne" -> Buf(Zeros(1))
    [] f = "Fail" -> ErrP(CallerError)

\* The closures a caller passes to fold.
Fold(f, acc, v) ==
  CASE f = "Count" -> acc + 1
    [] f = "Digits" -> acc * 16 + v[1]

\* The predicates a caller passes to until: each takes the bytes read so far
\* and the end-of-stream flag and gives Ok(Some(value)), Ok(None) or an error.
Pred(f, bytes, is_eos) ==
  CASE f = "Never" -> Ok(None)
    [] f = "HasNewline" ->
         IF is_eos \/ \E i \in 1..Len(bytes) : bytes[i] = NewLine THEN Ok(Some(is_eos))
         ELSE Ok(None)

\* Vec::resize(new_len, 0).
Resize(bs, new_len) ==
  [i \in 1..new_len |-> IF i <= Len(bs) THEN bs[i] ELSE 0]

\* A fixed-width integer pattern for reading (read::U8, BE<read::U16>,
\* LE<read::I24>, ...): size bytes, signed or not, in the byte order endian.
Fixnum(size, signed, endian) ==
  [k |-> "Fixnum", size |-> size, signed |-> signed, endian |-> endian]

\* A fixed-width integer pattern for writing (1u8, BE(2u16), LE(I24(n)), ...):
\* the value n in size bytes, in the byte order endian.
WFixnum(n, size, endian) == [k |-> "WFixnum", n |-> n, size |-> size, endian |-> endian]

\* ByteOrder::read_uint that reads every number as little-endian.
RECURSIVE read_uint_Little(_, _)
read_uint_Little(b, endian) ==
  IF b = <<>> THEN 0 ELSE Head(b) + 256 * read_uint_Little(Tail(b), endian)

\* BigEndian:: / LittleEndian::read_uint (read_u16, read_u32 for the widths
\* that have a type of their own): the number the bytes b stand for.
RECURSIVE read_uint(_, _)
read_uint(b, endian) ==
  CASE b = <<>> -> 0
    [] endian = "BE" -> read_uint(SubSeq(b, 1, Len(b) - 1), endian) * 256 + b[Len(b)]
    [] OTHER -> Head(b) + 256 * read_uint(Tail(b), endian)

\* conv of impl_read_fixnum_pattern: the value of the pattern p for the bytes
\* b; a signed pattern reads them as two's complement (read_int, as i8, ...).
conv(p, b) ==
  LET u == read_uint(b, p.endian)
  IN IF p.signed /\ u >= 2 ^ (8 * p.size - 1) THEN u - 2 ^ (8 * p.size) ELSE u

\* ByteOrder::write_uint that writes every number as big-endian.
write_uint_Big(n, size, endian) ==
  [i \in 1..size |-> ((n \div (256 ^ (size - i))) % 256)]

\* BigEndian:: / LittleEndian::write_uint and write_int (write_u16, ... for
\* the widths that have a type of their own): the size low bytes of n, a
\* negative n in two's complement.
write_uint(n, size, endian) ==
  [i \in 1..size |->
     IF endian = "BE" THEN (n \div (256 ^ (size - i))) % 256
     ELSE (n \div (256 ^ (i - 1))) % 256]

\* futures::done / futures::finished: a future that is complete from the start.
done(result) == [k |-> "Done", inner |-> Some(result)]

\* Phase<A, B> of src/matcher/async_match.rs; take() leaves Polled behind.
PhaseA(v) == [k |-> "A", v |-> v]
PhaseB(v) == [k |-> "B", v |-> v]
PhaseC(v) == [k |-> "C", v |-> v]
Polled == [k |-> "Polled"]

\* AsyncMatch::async_match: binds a pattern to the matcher (the stream).
RECURSIVE async_match(_, _)
async_match(p, matcher) ==
  CASE p.k = "Buf" -> [k |-> "ReadBuf", f |-> async_read_exact(matcher, p)]
    [] p.k = "Chain" ->
         [k |-> "MatchChain", phase |-> PhaseA([f |-> async_match(p.p0, matcher), p1 |-> p.p1])]
    [] p.k = "Tuple3" ->
         [k |-> "MatchTuple3",
          phase |-> PhaseA([f |-> async_match(p.a, matcher), b |-> p.b, c |-> p.c])]
    [] p.k = "Branch" -> [k |-> "Branch", tag |-> p.tag, f |-> async_match(p.p, matcher)]
    [] p.k = "Or" ->
         [k |-> "MatchOr", phase |-> PhaseA([f |-> async_match(p.p0, matcher), p1 |-> p.p1])]
    [] p.k = "Eos" -> [k |-> "ReadEos", f |-> async_read_exact(matcher, Buf(Zeros(1)))]
    [] p.k = "String" -> [k |-> "ReadString", f |-> async_read_exact(matcher, Buf(p.bytes))]
    [] p.k = "Until" ->
         [k |-> "ReadUntil",
          read |-> async_read(matcher, Window_new_ref(Buf(Zeros(p.min_buffer_size)))),
          pred |-> p.pred, max_buffer_size |-> p.max_buffer_size]
    [] p.k = "AndThen" ->
         [k |-> "MatchAndThen", phase |-> PhaseA([f |-> async_match(p.p, matcher), fn |-> p.f]),
          calls |-> <<>>]
    [] p.k = "Then" ->
         [k |-> "MatchThen", phase |-> PhaseA([f |-> async_match(p.p, matcher), fn |-> p.f]),
          calls |-> <<>>]
    [] p.k = "OrElse" ->
         [k |-> "MatchOrElse", phase |-> PhaseA([f |-> async_match(p.p, matcher), fn |-> p.f]),
          calls |-> <<>>]
    [] p.k = "IterFold" ->
         IF p.ps # <<>>
         THEN [k |-> "MatchIterFold",
               phase |-> PhaseA([f |-> async_match(Head(p.ps), matcher), iter |-> Tail(p.ps),
                                 acc |-> p.acc, fold |-> p.fold])]
         ELSE [k |-> "MatchIterFold", phase |-> PhaseB([m |-> matcher, acc |-> p.acc])]
    [] p.k = "Fixnum" ->
         [k |-> "MatchMap",
          inner |-> Some([f |-> async_match(Buf(Zeros(p.size)), matcher), fn |-> p])]
    [] p.k = "WFixnum" ->
         [k |-> "WriteFixnum",
          future |-> [k |-> "WriteBuf",
                      f |-> async_write_all(matcher, Buf(write_uint(p.n, p.size, p.endian)))]]
    [] p.k = "Line" -> [k |-> "ReadLine", inner |-> Some([r |-> matcher, buf |-> <<>>])]
    [] p.k = "Unit" -> done(Ok([r |-> matcher, v |-> <<>>]))
    [] p.k = "NoneP" -> [k |-> "MatchOption", inner |-> Some(Err(matcher))]
    [] p.k = "SomeP" -> [k |-> "MatchOption", inner |-> Some(Ok(async_match(p.p, matcher)))]
    [] p.k = "OkP" -> done(Ok([r |-> matcher, v |-> p.v]))
    [] p.k = "ErrP" -> done(Err(AsyncError_new([r |-> matcher], p.e)))

\* ReadBuf::poll that starts the read again, once, when it has failed.
ReadBuf_poll_Retry(self) ==
  With(ReadExact_poll(self.f), LAMBDA p0 :
  With(IF p0.res.k = "Err"
       THEN ReadExact_poll(async_read_exact(p0.res.state.r, Buf(Zeros(Len(p0.res.state.b.bytes)))))
       ELSE p0, LAMBDA p :
    LET me == [self EXCEPT !.f = p.self]
    IN CASE p.res.k = "Ready" ->
            [self |-> me, res |-> Ready([r |-> p.res.item.r, v |-> p.res.item.b.bytes])]
       [] p.res.k = "Err" ->
            [self |-> me, res |-> AsyncError_new([r |-> p.res.state.r], p.res.error)]
       [] OTHER -> [self |-> me, res |-> p.res]))

\* ReadBuf::poll (src/io/read_pattern.rs): the error keeps the reader only.
ReadBuf_poll(self) ==
  With(ReadExact_poll(self.f), LAMBDA p :
    LET me == [self EXCEPT !.f = p.self]
    IN CASE p.res.k = "Ready" ->
            [self |-> me, res |-> Ready([r |-> p.res.item.r, v |-> p.res.item.b.bytes])]
       [] p.res.k = "Err" ->
            [self |-> me, res |-> AsyncError_new([r |-> p.res.state.r], p.res.error)]
       [] OTHER -> [self |-> me, res |-> p.res])

RECURSIVE PollFut(_)

\* The streams owned by a future, wherever they sit in its structure.
RECURSIVE FutStreams(_)
FutStreams(f) ==
  CASE f.k \in {"ReadBytes", "WriteBytes", "Async.Read", "Async.Write"} ->
         IF f.inner.k = "Some" THEN <<f.inner.v.r>> ELSE <<>>
    [] f.k \in {"ReadNonEmpty", "ReadExact", "WriteAll", "IoRead.ReadExact", "Async.ReadExact",
                "Async.WriteAll", "ReadBuf", "Read2.ReadU8", "Branch", "ReadEos",
                "ReadString", "WriteBuf"} -> FutStreams(f.f)
    [] f.k = "WriteFixnum" -> FutStreams(f.future)
    [] f.k = "Async.ReadFixed" -> FutStreams(f.read)
    [] f.k \in {"Async.Str", "Async.Vector"} ->
         IF f.phase.k = "Polled" THEN <<>> ELSE FutStreams(f.phase.v.f)
    [] f.k = "Async.ReadVec" ->
         CASE f.state.ok -> FutStreams(f.state.v)
           [] f.state.e.k = "Some" -> <<f.state.e.v>>
           [] OTHER -> <<>>
    [] f.k = "MatchMap" -> IF f.inner.k = "Some" THEN FutStreams(f.inner.v.f) ELSE <<>>
    [] f.k = "ReadUntil" -> FutStreams(f.read)
    [] f.k = "OnReadReady" -> IF f.state.k = "Some" THEN <<f.state.v>> ELSE <<>>
    [] f.k \in {"Read2.Read", "Read2.ReadExact"} -> FutStreams(f.future)
    [] f.k = "Read2.ReadTuple2" ->
         FutStreams(f.fs0) \o (IF f.fs1.k = "Some" THEN FutStreams(f.fs1.v) ELSE <<>>)
    [] f.k \in {"MatchChain", "MatchTuple3", "MatchAndThen", "MatchThen", "MatchOrElse",
                "MatchOr"} ->
         IF f.phase.k = "Polled" THEN <<>> ELSE FutStreams(f.phase.v.f)
    [] f.k = "MatchIterFold" ->
         CASE f.phase.k = "A" -> FutStreams(f.phase.v.f)
           [] f.phase.k = "B" -> <<f.phase.v.m>>
           [] OTHER -> <<>>
    [] f.k = "MatchOption" ->
         CASE f.inner.k = "None" -> <<>>
           [] f.inner.v.ok -> FutStreams(f.inner.v.v)
           [] OTHER -> <<f.inner.v.e>>
    [] f.k = "Done" ->
         CASE f.inner.k = "None" -> <<>>
           [] f.inner.v.ok -> <<f.inner.v.v.r>>
           [] OTHER -> <<f.inner.v.e.state.r>>
    [] f.k = "ReadLine" -> IF f.inner.k = "Some" THEN <<f.inner.v.r>> ELSE <<>>
    [] OTHER -> <<>>

\* MatchChain::poll that binds the second pattern to the stream as it was
\* before the first sub-operation's last poll.
RECURSIVE MatchChain_poll_Stale(_)
MatchChain_poll_Stale(self) ==
  LET ph == self.phase
      taken == [self EXCEPT !.phase = Polled]
  IN CASE ph.k = "A" ->
            With(PollFut(ph.v.f), LAMBDA p :
               CASE p.res.k = "Err" -> [self |-> taken, res |-> p.res]
                 [] p.res.k = "Ready" ->
                      MatchChain_poll_Stale([self EXCEPT !.phase =
                          PhaseB([f |-> async_match(ph.v.p1, FutStreams(ph.v.f)[1]),
                                  v0 |-> p.res.item.v])])
                 [] p.res.k = "NotReady" ->
                      [self |-> [self EXCEPT !.phase = PhaseA([f |-> p.self, p1 |-> ph.v.p1])],
                       res |-> NotReady]
                 [] OTHER -> [self |-> taken, res |-> p.res])
       [] ph.k = "B" ->
            With(PollFut(ph.v.f), LAMBDA p :
               CASE p.res.k = "Ready" ->
                      [self |-> taken,
                       res |-> Ready([r |-> p.res.item.r, v |-> <<ph.v.v0, p.res.item.v>>])]
                 [] p.res.k = "NotReady" ->
                      [self |-> [self EXCEPT !.phase = PhaseB([f |-> p.self, v0 |-> ph.v.v0])],
                       res |-> NotReady]
                 [] OTHER -> [self |-> taken, res |-> p.res])
       [] OTHER -> [self |-> self, res |-> Panic("Cannot poll MatchChain twice")]

\* MatchChain::poll that goes on to the second pattern when the first failed.
RECURSIVE MatchChain_poll_GoesOn(_)
MatchChain_poll_GoesOn(self) ==
  LET ph == self.phase
      taken == [self EXCEPT !.phase = Polled]
  IN CASE ph.k = "A" ->
            With(PollFut(ph.v.f), LAMBDA p :
               CASE p.res.k = "Err" ->
                      MatchChain_poll_GoesOn([self EXCEPT !.phase =
                          PhaseB([f |-> async_match(ph.v.p1, p.res.state.r), v0 |-> <<>>])])
                 [] p.res.k = "Ready" ->
                      MatchChain_poll_GoesOn([self EXCEPT !.phase =
                          PhaseB([f |-> async_match(ph.v.p1, p.res.item.r), v0 |-> p.res.item.v])])
                 [] p.res.k = "NotReady" ->
                      [self |-> [self EXCEPT !.phase = PhaseA([f |-> p.self, p1 |-> ph.v.p1])],
                       res |-> NotReady]
                 [] OTHER -> [self |-> taken, res |-> p.res])
       [] ph.k = "B" ->
            With(PollFut(ph.v.f), LAMBDA p :
               CASE p.res.k = "Ready" ->
                      [self |-> taken,
                       res |-> Ready([r |-> p.res.item.r, v |-> <<ph.v.v0, p.res.item.v>>])]
                 [] p.res.k = "NotReady" ->
                      [self |-> [self EXCEPT !.phase = PhaseB([f |-> p.self, v0 |-> ph.v.v0])],
                       res |-> NotReady]
                 [] OTHER -> [self |-> taken, res |-> p.res])
       [] OTHER -> [self |-> self, res |-> Panic("Cannot poll MatchChain twice")]

RECURSIVE MatchChain_poll(_)
MatchChain_poll(self) ==
  LET ph == self.phase
      taken == [self EXCEPT !.phase = Polled]
  IN CASE ph.k = "A" ->
            With(PollFut(ph.v.f), LAMBDA p :
               CASE p.res.k = "Err" -> [self |-> taken, res |-> p.res]
                 [] p.res.k = "Ready" ->
                      MatchChain_poll([self EXCEPT !.phase =
                          PhaseB([f |-> async_match(ph.v.p1, p.res.item.r), v0 |-> p.res.item.v])])
                 [] p.res.k = "NotReady" ->
                      [self |-> [self EXCEPT !.phase = PhaseA([f |-> p.self, p1 |-> ph.v.p1])],
                       res |-> NotReady]
                 [] OTHER -> [self |-> taken, res |-> p.res])
       [] ph.k = "B" ->
            With(PollFut(ph.v.f), LAMBDA p :
               CASE p.res.k = "Ready" ->
                      [self |-> taken,
                       res |-> Ready([r |-> p.res.item.r, v |-> <<ph.v.v0, p.res.item.v>>])]
                 [] p.res.k = "NotReady" ->
                      [self |-> [self EXCEPT !.phase = PhaseB([f |-> p.self, v0 |-> ph.v.v0])],
                       res |-> NotReady]
                 [] OTHER -> [self |-> taken, res |-> p.res])
       [] OTHER -> [self |-> self, res |-> Panic("Cannot poll MatchChain twice")]

\* MatchTuple3::poll (src/pattern/async_match_tuple.rs).
RECURSIVE MatchTuple3_poll(_)
MatchTuple3_poll(self) ==
  LET ph == self.phase
      taken == [self EXCEPT !.phase = Polled]
  IN CASE ph.k = "A" ->
            With(PollFut(ph.v.f), LAMBDA p :
               CASE p.res.k = "Ready" ->
                      MatchTuple3_poll([self EXCEPT !.phase =
                          PhaseB([f |-> async_match(ph.v.b, p.res.item.r), c |-> ph.v.c,
                                  a |-> p.res.item.v])])
                 [] p.res.k = "NotReady" ->
                      [self |-> [self EXCEPT !.phase =
                                   PhaseA([f |-> p.self, b |-> ph.v.b, c |-> ph.v.c])],
                       res |-> NotReady]
                 [] OTHER -> [self |-> taken, res |-> p.res])
       [] ph.k = "B" ->
            With(PollFut(ph.v.f), LAMBDA p :
               CASE p.res.k = "Ready" ->
                      MatchTuple3_poll([self EXCEPT !.phase =
                          PhaseC([f |-> async_match(ph.v.c, p.res.item.r), a |-> ph.v.a,
                                  b |-> p.res.item.v])])
                 [] p.res.k = "NotReady" ->
                      [self |-> [self EXCEPT !.phase =
                                   PhaseB([f |-> p.self, c |-> ph.v.c, a |-> ph.v.a])],
                       res |-> NotReady]
                 [] OTHER -> [self |-> taken, res |-> p.res])
       [] ph.k = "C" ->
            With(PollFut(ph.v.f), LAMBDA p :
               CASE p.res.k = "Ready" ->
                      [self |-> taken,
                       res |-> Ready([r |-> p.res.item.r, v |-> <<ph.v.a, ph.v.b, p.res.item.v>>])]
                 [] p.res.k = "NotReady" ->
                      [self |-> [self EXCEPT !.phase =
                                   PhaseC([f |-> p.self, a |-> ph.v.a, b |-> ph.v.b])],
                       res |-> NotReady]
                 [] OTHER -> [self |-> taken, res |-> p.res])
       [] OTHER -> [self |-> self, res |-> Panic("Cannot poll MatchTuple3 twice")]

\* Phase B of MatchAndThen, MatchThen and MatchOrElse: the second future.
PhaseB_poll(self, taken) ==
  With(PollFut(self.phase.v.f), LAMBDA p :
    CASE p.res.k = "Ready" -> [self |-> taken, res |-> p.res]
      [] p.res.k = "NotReady" ->
           [self |-> [self EXCEPT !.phase = PhaseB([f |-> p.self])], res |-> NotReady]
      [] OTHER -> [self |-> taken, res |-> p.res])

\* MatchAndThen::poll that binds the next pattern to the stream as it was
\* before the first pattern's last poll.
RECURSIVE MatchAndThen_poll_Stale(_)
MatchAndThen_poll_Stale(self) ==
  LET ph == self.phase
      taken == [self EXCEPT !.phase = Polled]
  IN CASE ph.k = "A" ->
            With(PollFut(ph.v.f), LAMBDA p :
               CASE p.res.k = "Ready" ->
                      MatchAndThen_poll_Stale([self EXCEPT
                          !.phase = PhaseB([f |-> async_match(Call(ph.v.fn, p.res.item.v),
                                                              FutStreams(ph.v.f)[1])]),
                          !.calls = Append(@, p.res.item.v)])
                 [] p.res.k = "NotReady" ->
                      [self |-> [self EXCEPT !.phase = PhaseA([f |-> p.self, fn |-> ph.v.fn])],
                       res |-> NotReady]
                 [] OTHER -> [self |-> taken, res |-> p.res])
       [] ph.k = "B" -> PhaseB_poll(self, taken)
       [] OTHER -> [self |-> self, res |-> Panic("Cannot poll MatchAndThen twice")]

\* MatchAndThen::poll.  calls lists the arguments the closure was called with.
RECURSIVE MatchAndThen_poll(_)
MatchAndThen_poll(self) ==
  LET ph == self.phase
      taken == [self EXCEPT !.phase = Polled]
  IN CASE ph.k = "A" ->
            With(PollFut(ph.v.f), LAMBDA p :
               CASE p.res.k = "Ready" ->
                      MatchAndThen_poll([self EXCEPT
                          !.phase = PhaseB([f |-> async_match(Call(ph.v.fn, p.res.item.v),
                                                              p.res.item.r)]),
                          !.calls = Append(@, p.res.item.v)])
                 [] p.res.k = "NotReady" ->
                      [self |-> [self EXCEPT !.phase = PhaseA([f |-> p.self, fn |-> ph.v.fn])],
                       res |-> NotReady]
                 [] OTHER -> [self |-> taken, res |-> p.res])
       [] ph.k = "B" -> PhaseB_poll(self, taken)
       [] OTHER -> [self |-> self, res |-> Panic("Cannot poll MatchAndThen twice")]

\* MatchThen::poll that gives up on a failure of the first pattern.
RECURSIVE MatchThen_poll_NoRecover(_)
MatchThen_poll_NoRecover(self) ==
  LET ph == self.phase
      taken == [self EXCEPT !.phase = Polled]
  IN CASE ph.k = "A" ->
            With(PollFut(ph.v.f), LAMBDA p :
               CASE p.res.k = "Ready" ->
                      MatchThen_poll_NoRecover([self EXCEPT
                          !.phase = PhaseB([f |-> async_match(Call(ph.v.fn, Ok(p.res.item.v)),
                                                              p.res.item.r)]),
                          !.calls = Append(@, Ok(p.res.item.v))])
                 [] p.res.k = "NotReady" ->
                      [self |-> [self EXCEPT !.phase = PhaseA([f |-> p.self, fn |-> ph.v.fn])],
                       res |-> NotReady]
                 [] OTHER -> [self |-> taken, res |-> p.res])
       [] ph.k = "B" -> PhaseB_poll(self, taken)
       [] OTHER -> [self |-> self, res |-> Panic("Cannot poll MatchThen twice")]

\* MatchThen::poll.
RECURSIVE MatchThen_poll(_)
MatchThen_poll(self) ==
  LET ph == self.phase
      taken == [self EXCEPT !.phase = Polled]
  IN CASE ph.k = "A" ->
            With(PollFut(ph.v.f), LAMBDA p :
               CASE p.res.k = "Err" ->
                      MatchThen_poll([self EXCEPT
                          !.phase = PhaseB([f |-> async_match(Call(ph.v.fn, Err(p.res.error)),
                                                              p.res.state.r)]),
                          !.calls = Append(@, Err(p.res.error))])
                 [] p.res.k = "Ready" ->
                      MatchThen_poll([self EXCEPT
                          !.phase = PhaseB([f |-> async_match(Call(ph.v.fn, Ok(p.res.item.v)),
                                                              p.res.item.r)]),
                          !.calls = Append(@, Ok(p.res.item.v))])
                 [] p.res.k = "NotReady" ->
                      [self |-> [self EXCEPT !.phase = PhaseA([f |-> p.self, fn |-> ph.v.fn])],
                       res |-> NotReady]
                 [] OTHER -> [self |-> taken, res |-> p.res])
       [] ph.k = "B" -> PhaseB_poll(self, taken)
       [] OTHER -> [self |-> self, res |-> Panic("Cannot poll MatchThen twice")]

\* MatchOrElse::poll that binds the fallback to the stream as it was before
\* the first pattern's last poll.
RECURSIVE MatchOrElse_poll_Stale(_)
MatchOrElse_poll_Stale(self) ==
  LET ph == self.phase
      taken == [self EXCEPT !.phase = Polled]
  IN CASE ph.k = "A" ->
            With(PollFut(ph.v.f), LAMBDA p :
               CASE p.res.k = "Err" ->
                      MatchOrElse_poll_Stale([self EXCEPT
                          !.phase = PhaseB([f |-> async_match(Call(ph.v.fn, p.res.error),
                                                              FutStreams(ph.v.f)[1])]),
                          !.calls = Append(@, p.res.error)])
                 [] p.res.k = "Ready" -> [self |-> taken, res |-> p.res]
                 [] p.res.k = "NotReady" ->
                      [self |-> [self EXCEPT !.phase = PhaseA([f |-> p.self, fn |-> ph.v.fn])],
                       res |-> NotReady]
                 [] OTHER -> [self |-> taken, res |-> p.res])
       [] ph.k = "B" -> PhaseB_poll(self, taken)
       [] OTHER -> [self |-> self, res |-> Panic("Cannot poll MatchOrElse twice")]

\* MatchOrElse::poll.
RECURSIVE MatchOrElse_poll(_)
MatchOrElse_poll(self) ==
  LET ph == self.phase
      taken == [self EXCEPT !.phase = Polled]
  IN CASE ph.k = "A" ->
            With(PollFut(ph.v.f), LAMBDA p :
               CASE p.res.k = "Err" ->
                      MatchOrElse_poll([self EXCEPT
                          !.phase = PhaseB([f |-> async_match(Call(ph.v.fn, p.res.error),
                                                              p.res.state.r)]),
                          !.calls = Append(@, p.res.error)])
                 [] p.res.k = "Ready" -> [self |-> taken, res |-> p.res]
                 [] p.res.k = "NotReady" ->
                      [self |-> [self EXCEPT !.phase = PhaseA([f |-> p.self, fn |-> ph.v.fn])],
                       res |-> NotReady]
                 [] OTHER -> [self |-> taken, res |-> p.res])
       [] ph.k = "B" -> PhaseB_poll(self, taken)
       [] OTHER -> [self |-> self, res |-> Panic("Cannot poll MatchOrElse twice")]

\* MatchIterFold::poll that leaves the value of the last pattern out.
RECURSIVE MatchIterFold_poll_SkipsLast(_)
MatchIterFold_poll_SkipsLast(self) ==
  LET ph == self.phase
      taken == [self EXCEPT !.phase = Polled]
  IN CASE ph.k = "A" ->
            With(PollFut(ph.v.f), LAMBDA p :
               CASE p.res.k = "Ready" ->
                      LET acc == Fold(ph.v.fold, ph.v.acc, p.res.item.v)
                      IN IF ph.v.iter # <<>>
                         THEN MatchIterFold_poll_SkipsLast([self EXCEPT !.phase =
                                  PhaseA([f |-> async_match(Head(ph.v.iter), p.res.item.r),
                                          iter |-> Tail(ph.v.iter), acc |-> acc,
                                          fold |-> ph.v.fold])])
                         ELSE [self |-> taken,
                               res |-> Ready([r |-> p.res.item.r, v |-> ph.v.acc])]
                 [] p.res.k = "NotReady" ->
                      [self |-> [self EXCEPT !.phase = PhaseA([ph.v EXCEPT !.f = p.self])],
                       res |-> NotReady]
                 [] OTHER -> [self |-> taken, res |-> p.res])
       [] ph.k = "B" -> [self |-> taken, res |-> Ready([r |-> ph.v.m, v |-> ph.v.acc])]
       [] OTHER -> [self |-> self, res |-> Panic("Cannot poll MatchIterFold twice")]

\* MatchIterFold::poll.
RECURSIVE MatchIterFold_poll(_)
MatchIterFold_poll(self) ==
  LET ph == self.phase
      taken == [self EXCEPT !.phase = Polled]
  IN CASE ph.k = "A" ->
            With(PollFut(ph.v.f), LAMBDA p :
               CASE p.res.k = "Ready" ->
                      LET acc == Fold(ph.v.fold, ph.v.acc, p.res.item.v)
                      IN IF ph.v.iter # <<>>
                         THEN MatchIterFold_poll([self EXCEPT !.phase =
                                  PhaseA([f |-> async_match(Head(ph.v.iter), p.res.item.r),
                                          iter |-> Tail(ph.v.iter), acc |-> acc,
                                          fold |-> ph.v.fold])])
                         ELSE [self |-> taken, res |-> Ready([r |-> p.res.item.r, v |-> acc])]
                 [] p.res.k = "NotReady" ->
                      [self |-> [self EXCEPT !.phase = PhaseA([ph.v EXCEPT !.f = p.self])],
                       res |-> NotReady]
                 [] OTHER -> [self |-> taken, res |-> p.res])
       [] ph.k = "B" -> [self |-> taken, res |-> Ready([r |-> ph.v.m, v |-> ph.v.acc])]
       [] OTHER -> [self |-> self, res |-> Panic("Cannot poll MatchIterFold twice")]

\* MatchOption::poll that tries a read of no bytes when there is no pattern.
MatchOption_poll_Probe(self) ==
  IF self.inner.k = "None" THEN [self |-> self, res |-> Panic("Cannot poll MatchOption twice")]
  ELSE LET inner == self.inner.v
           taken == [self EXCEPT !.inner = None]
       IN IF inner.ok
          THEN With(PollFut(inner.v), LAMBDA p :
                 CASE p.res.k = "Ready" ->
                        [self |-> taken,
                         res |-> Ready([r |-> p.res.item.r, v |-> Some(p.res.item.v)])]
                   [] p.res.k = "NotReady" ->
                        [self |-> [self EXCEPT !.inner = Some(Ok(p.self))], res |-> NotReady]
                   [] OTHER -> [self |-> taken, res |-> p.res])
          ELSE [self |-> taken, res |-> Ready([r |-> StreamRead(inner.e, 0).r, v |-> None])]

\* MatchOption::poll.
MatchOption_poll(self) ==
  IF self.inner.k = "None" THEN [self |-> self, res |-> Panic("Cannot poll MatchOption twice")]
  ELSE LET inner == self.inner.v
           taken == [self EXCEPT !.inner = None]
       IN IF inner.ok
          THEN With(PollFut(inner.v), LAMBDA p :
                 CASE p.res.k = "Ready" ->
                        [self |-> taken,
                         res |-> Ready([r |-> p.res.item.r, v |-> Some(p.res.item.v)])]
                   [] p.res.k = "NotReady" ->
                        [self |-> [self EXCEPT !.inner = Some(Ok(p.self))], res |-> NotReady]
                   [] OTHER -> [self |-> taken, res |-> p.res])
          ELSE [self |-> taken, res |-> Ready([r |-> inner.e, v |-> None])]

\* Done::poll of the futures crate: gives the stored result, once.
Done_poll(self) ==
  IF self.inner.k = "None" THEN [self |-> self, res |-> Panic("cannot poll Done twice")]
  ELSE [self |-> [self EXCEPT !.inner = None],
        res |-> IF self.inner.v.ok THEN Ready(self.inner.v.v) ELSE self.inner.v.e]

\* String::from_utf8 on the bytes of the model, which are all ASCII.
from_utf8(buf) == IF \A i \in 1..Len(buf) : buf[i] < 128 THEN Ok(buf) ELSE Err("FromUtf8Error")

\* ReadEos::poll for which the end of the stream is an error like any other.
ReadEos_poll_EofIsError(self) ==
  With(ReadExact_poll(self.f), LAMBDA p :
    LET me == [self EXCEPT !.f = p.self]
    IN CASE p.res.k = "Err" ->
              [self |-> me, res |-> AsyncError_new([r |-> p.res.state.r], p.res.error)]
         [] p.res.k = "Ready" ->
              [self |-> me, res |-> Ready([r |-> p.res.item.r, v |-> Err(p.res.item.b.bytes[1])])]
         [] OTHER -> [self |-> me, res |-> p.res])

\* ReadEos::poll that reads on after the byte it has found.
ReadEos_poll_ReadsOn(self) ==
  With(ReadExact_poll(self.f), LAMBDA p :
    LET me == [self EXCEPT !.f = p.self]
    IN CASE p.res.k = "Err" ->
              IF p.res.error.kind = "UnexpectedEof"
              THEN [self |-> me, res |-> Ready([r |-> p.res.state.r, v |-> Ok(<<>>)])]
              ELSE [self |-> me, res |-> AsyncError_new([r |-> p.res.state.r], p.res.error)]
         [] p.res.k = "Ready" ->
              [self |-> me,
               res |-> Ready([r |-> StreamRead(p.res.item.r, 1).r,
                              v |-> Err(p.res.item.b.bytes[1])])]
         [] OTHER -> [self |-> me, res |-> p.res])

\* ReadEos::poll (src/io/read_pattern.rs): an exact read of one byte, the
\* end of the stream being its Ok(()) and a byte its Err(byte).
ReadEos_poll(self) ==
  With(ReadExact_poll(self.f), LAMBDA p :
    LET me == [self EXCEPT !.f = p.self]
    IN CASE p.res.k = "Err" ->
              IF p.res.error.kind = "UnexpectedEof"
              THEN [self |-> me, res |-> Ready([r |-> p.res.state.r, v |-> Ok(<<>>)])]
              ELSE [self |-> me, res |-> AsyncError_new([r |-> p.res.state.r], p.res.error)]
         [] p.res.k = "Ready" ->
              [self |-> me, res |-> Ready([r |-> p.res.item.r, v |-> Err(p.res.item.b.bytes[1])])]
         [] OTHER -> [self |-> me, res |-> p.res])

\* ReadString::poll (src/io/read_pattern.rs).
ReadString_poll(self) ==
  With(ReadExact_poll(self.f), LAMBDA p :
    LET me == [self EXCEPT !.f = p.self]
    IN CASE p.res.k = "Ready" ->
              IF from_utf8(p.res.item.b.bytes).ok
              THEN [self |-> me,
                    res |-> Ready([r |-> p.res.item.r, v |-> from_utf8(p.res.item.b.bytes).v])]
              ELSE [self |-> me,
                    res |-> AsyncError_new([r |-> p.res.item.r],
                                           [kind |-> "InvalidData", from |-> "ReadString"])]
         [] p.res.k = "Err" ->
              [self |-> me, res |-> AsyncError_new([r |-> p.res.state.r], p.res.error)]
         [] OTHER -> [self |-> me, res |-> p.res])

BufferSizeLimit == [kind |-> "Other", from |-> "Buffer size limit reached"]

\* ReadUntil::poll that gives its whole buffer, not only the part read into.
RECURSIVE ReadUntil_poll_NoTruncate(_)
ReadUntil_poll_NoTruncate(self) ==
  With(ReadBytes_poll(self.read), LAMBDA p :
    LET me == [self EXCEPT !.read = p.self]
    IN CASE p.res.k = "Ready" ->
              LET r == p.res.item.r
                  read_size == p.res.item.size
                  is_eos == read_size = 0
                  b == Window_skip(p.res.item.b, read_size)
                  total_read_size == b.start
                  bytes == SubSeq(b.inner.bytes, 1, total_read_size)
                  verdict == Pred(self.pred, bytes, is_eos)
              IN CASE ~verdict.ok -> [self |-> me, res |-> AsyncError_new([r |-> r], verdict.e)]
                   [] verdict.v.k = "Some" ->
                        [self |-> me,
                         res |-> Ready([r |-> r,
                                        v |-> <<Window_into_inner(b).bytes,
                                                verdict.v.v>>])]
                   [] is_eos ->
                        [self |-> me,
                         res |-> AsyncError_new([r |-> r], UnexpectedEof("ReadUntil"))]
                   [] AsRef(b) = <<>> ->
                        LET new_len == Min(total_read_size * 2, self.max_buffer_size)
                            inner == Window_into_inner(b)
                        IN IF new_len = Len(inner.bytes)
                           THEN [self |-> me, res |-> AsyncError_new([r |-> r], BufferSizeLimit)]
                           ELSE ReadUntil_poll_NoTruncate([self EXCEPT !.read =
                                  async_read(r, Window_skip(
                                      Window_new_ref(Buf(Resize(inner.bytes, total_read_size * 2))),
                                      total_read_size))])
                   [] OTHER -> ReadUntil_poll_NoTruncate([self EXCEPT !.read = async_read(r, b)])
         [] p.res.k = "Err" ->
              [self |-> me, res |-> AsyncError_new([r |-> p.res.state.r], p.res.error)]
         [] OTHER -> [self |-> me, res |-> p.res])

\* ReadUntil::poll (src/io/read_pattern.rs).
RECURSIVE ReadUntil_poll(_)
ReadUntil_poll(self) ==
  With(ReadBytes_poll(self.read), LAMBDA p :
    LET me == [self EXCEPT !.read = p.self]
    IN CASE p.res.k = "Ready" ->
              LET r == p.res.item.r
                  read_size == p.res.item.size
                  is_eos == read_size = 0
                  b == Window_skip(p.res.item.b, read_size)
                  total_read_size == b.start
                  bytes == SubSeq(b.inner.bytes, 1, total_read_size)
                  verdict == Pred(self.pred, bytes, is_eos)
              IN CASE ~verdict.ok -> [self |-> me, res |-> AsyncError_new([r |-> r], verdict.e)]
                   [] verdict.v.k = "Some" ->
                        [self |-> me,
                         res |-> Ready([r |-> r,
                                        v |-> <<Resize(Window_into_inner(b).bytes, total_read_size),
                                                verdict.v.v>>])]
                   [] is_eos ->
                        [self |-> me,
                         res |-> AsyncError_new([r |-> r], UnexpectedEof("ReadUntil"))]
                   [] AsRef(b) = <<>> ->
                        LET new_len == Min(total_read_size * 2, self.max_buffer_size)
                            inner == Window_into_inner(b)
                        IN IF new_len = Len(inner.bytes)
                           THEN [self |-> me, res |-> AsyncError_new([r |-> r], BufferSizeLimit)]
                           ELSE ReadUntil_poll([self EXCEPT !.read =
                                  async_read(r, Window_skip(
                                      Window_new_ref(Buf(Resize(inner.bytes, total_read_size * 2))),
                                      total_read_size))])
                   [] OTHER -> ReadUntil_poll([self EXCEPT !.read = async_read(r, b)])
         [] p.res.k = "Err" ->
              [self |-> me, res |-> AsyncError_new([r |-> p.res.state.r], p.res.error)]
         [] OTHER -> [self |-> me, res |-> p.res])

\* MatchOr::poll: the error of the first pattern is dropped and the second
\* pattern is bound to the stream that came with it.
RECURSIVE MatchOr_poll(_)
MatchOr_poll(self) ==
  LET ph == self.phase
      taken == [self EXCEPT !.phase = Polled]
  IN CASE ph.k = "A" ->
            With(PollFut(ph.v.f), LAMBDA p :
               CASE p.res.k = "Err" ->
                      MatchOr_poll([self EXCEPT
                          !.phase = PhaseB([f |-> async_match(ph.v.p1, p.res.state.r)])])
                 [] p.res.k = "Ready" -> [self |-> taken, res |-> p.res]
                 [] p.res.k = "NotReady" ->
                      [self |-> [self EXCEPT !.phase = PhaseA([f |-> p.self, p1 |-> ph.v.p1])],
                       res |-> NotReady]
                 [] OTHER -> [self |-> taken, res |-> p.res])
       [] ph.k = "B" -> PhaseB_poll(self, taken)
       [] OTHER -> [self |-> self, res |-> Panic("Cannot poll MatchOr twice")]

\* ReadLine::poll that reads again at once when the stream would block.
RECURSIVE ReadLine_poll_Spin(_)
ReadLine_poll_Spin(self) ==
  IF self.inner.k = "None" THEN [self |-> self, res |-> Panic("Cannot poll ReadLine twice")]
  ELSE With(StreamRead(self.inner.v.r, 1), LAMBDA c :
       LET buf == self.inner.v.buf
           taken == [self EXCEPT !.inner = None]
       IN CASE c.k = "WouldBlock" ->
                 ReadLine_poll_Spin([self EXCEPT !.inner = Some([r |-> c.r, buf |-> buf])])
            [] c.k = "Err" -> [self |-> taken, res |-> AsyncError_new([r |-> c.r], c.e)]
            [] c.size = 0 /\ buf = <<>> ->
                 [self |-> taken,
                  res |-> AsyncError_new([r |-> c.r], UnexpectedEof("ReadLine"))]
            [] OTHER ->
                 LET buf2 == IF c.size = 0 THEN buf ELSE Append(buf, c.bytes[1])
                     newline == IF c.size = 0 THEN TRUE ELSE c.bytes[1] = NewLine
                 IN IF newline
                    THEN [self |-> taken, res |-> Ready([r |-> c.r, v |-> buf2])]
                    ELSE ReadLine_poll_Spin([self EXCEPT !.inner = Some([r |-> c.r, buf |-> buf2])]))

\* ReadLine::poll that leaves the newline out of the line.
RECURSIVE ReadLine_poll_Strip(_)
ReadLine_poll_Strip(self) ==
  IF self.inner.k = "None" THEN [self |-> self, res |-> Panic("Cannot poll ReadLine twice")]
  ELSE With(StreamRead(self.inner.v.r, 1), LAMBDA c :
       LET buf == self.inner.v.buf
           taken == [self EXCEPT !.inner = None]
       IN CASE c.k = "WouldBlock" ->
                 [self |-> [self EXCEPT !.inner = Some([r |-> c.r, buf |-> buf])],
                  res |-> NotReady]
            [] c.k = "Err" -> [self |-> taken, res |-> AsyncError_new([r |-> c.r], c.e)]
            [] c.size = 0 /\ buf = <<>> ->
                 [self |-> taken,
                  res |-> AsyncError_new([r |-> c.r], UnexpectedEof("ReadLine"))]
            [] OTHER ->
                 LET buf2 == IF c.size = 0 \/ c.bytes[1] = NewLine THEN buf ELSE Append(buf, c.bytes[1])
                     newline == IF c.size = 0 THEN TRUE ELSE c.bytes[1] = NewLine
                 IN IF newline
                    THEN IF from_utf8(buf2).ok
                         THEN [self |-> taken, res |-> Ready([r |-> c.r, v |-> from_utf8(buf2).v])]
                         ELSE [self |-> taken,
                               res |-> AsyncError_new([r |-> c.r],
                                                      [kind |-> "InvalidInput", from |-> "ReadLine"])]
                    ELSE ReadLine_poll_Strip([self EXCEPT !.inner = Some([r |-> c.r, buf |-> buf2])]))

\* ReadLine::poll (src/io/read_pattern.rs): reads byte by byte up to a newline
\* or the end of the stream.
RECURSIVE ReadLine_poll(_)
ReadLine_poll(self) ==
  IF self.inner.k = "None" THEN [self |-> self, res |-> Panic("Cannot poll ReadLine twice")]
  ELSE With(StreamRead(self.inner.v.r, 1), LAMBDA c :
       LET buf == self.inner.v.buf
           taken == [self EXCEPT !.inner = None]
       IN CASE c.k = "WouldBlock" ->
                 [self |-> [self EXCEPT !.inner = Some([r |-> c.r, buf |-> buf])],
                  res |-> NotReady]
            [] c.k = "Err" -> [self |-> taken, res |-> AsyncError_new([r |-> c.r], c.e)]
            [] c.size = 0 /\ buf = <<>> ->
                 [self |-> taken,
                  res |-> AsyncError_new([r |-> c.r], UnexpectedEof("ReadLine"))]
            [] OTHER ->
                 LET buf2 == IF c.size = 0 THEN buf ELSE Append(buf, c.bytes[1])
                     newline == IF c.size = 0 THEN TRUE ELSE c.bytes[1] = NewLine
                 IN IF newline
                    THEN IF from_utf8(buf2).ok
                         THEN [self |-> taken, res |-> Ready([r |-> c.r, v |-> from_utf8(buf2).v])]
                         ELSE [self |-> taken,
                               res |-> AsyncError_new([r |-> c.r],
                                                      [kind |-> "InvalidInput", from |-> "ReadLine"])]
                    ELSE ReadLine_poll([self EXCEPT !.inner = Some([r |-> c.r, buf |-> buf2])]))

\* Branch::poll (src/pattern/mod.rs): forwards to the selected future.
\* MatchMap::poll (src/matcher/async_match.rs) with the function of a
\* fixed-width pattern: conv on the bytes read.
MatchMap_poll(self) ==
  IF self.inner.k = "None" THEN [self |-> self, res |-> Panic("Cannot poll MatchMap twice")]
  ELSE With(PollFut(self.inner.v.f), LAMBDA p :
       CASE p.res.k = "Ready" ->
              [self |-> [self EXCEPT !.inner = None],
               res |-> Ready([r |-> p.res.item.r, v |-> conv(self.inner.v.fn, p.res.item.v)])]
         [] p.res.k = "NotReady" ->
              [self |-> [self EXCEPT !.inner = Some([f |-> p.self, fn |-> self.inner.v.fn])],
               res |-> NotReady]
         [] OTHER -> [self |-> [self EXCEPT !.inner = None], res |-> p.res])

\* WriteBuf::poll over a single write: done with whatever the writer took.
WriteBuf_poll_Partial(self) ==
  With(WriteBytes_poll(self.f.f), LAMBDA p :
    LET me == [self EXCEPT !.f.f = p.self]
    IN CASE p.res.k = "Ready" ->
            [self |-> me, res |-> Ready([r |-> p.res.item.r, v |-> p.res.item.b.inner.bytes])]
       [] p.res.k = "Err" ->
            [self |-> me, res |-> AsyncError_new([r |-> p.res.state.r], p.res.error)]
       [] OTHER -> [self |-> me, res |-> p.res])

\* WriteBuf::poll (src/io/write_pattern.rs): the error keeps the writer only.
WriteBuf_poll(self) ==
  With(WriteAll_poll(self.f), LAMBDA p :
    LET me == [self EXCEPT !.f = p.self]
    IN CASE p.res.k = "Ready" ->
            [self |-> me, res |-> Ready([r |-> p.res.item.r, v |-> p.res.item.b.bytes])]
       [] p.res.k = "Err" ->
            [self |-> me, res |-> AsyncError_new([r |-> p.res.state.r], p.res.error)]
       [] OTHER -> [self |-> me, res |-> p.res])

\* WriteFixnum::poll: the value of a written number is ().
WriteFixnum_poll(self) ==
  With(WriteBuf_poll(self.future), LAMBDA p :
    LET me == [self EXCEPT !.future = p.self]
    IN IF p.res.k = "Ready"
       THEN [self |-> me, res |-> Ready([r |-> p.res.item.r, v |-> <<>>])]
       ELSE [self |-> me, res |-> p.res])

Branch_poll(self) ==
  With(PollFut(self.f), LAMBDA p :
    [self |-> [self EXCEPT !.f = p.self], res |-> p.res])

\* ------------------- length-prefixed patterns of src/async/read.rs ("async")
\* Fixed::convert of U8 and AsUsize::as_usize of u8, which src/async/read.rs
\* uses and pattern::read declares: the byte read, taken as a length.
Fixed_convert(b) == b[1]

AsUsize(len) == len

\* read_pattern of the patterns U8, (), Str(len) and Vector(len, elem).
RECURSIVE Async_read_pattern(_, _)
Async_read_pattern(p, reader) ==
  CASE p.k = "U8" ->
         [k |-> "Async.ReadFixed", read |-> Async_async_read_exact(reader, Buf(Zeros(1)))]
    [] p.k = "Unit" -> done(Ok([r |-> reader, v |-> <<>>]))
    [] p.k = "Str" ->
         [k |-> "Async.Str", phase |-> PhaseA([f |-> Async_read_pattern(p.len, reader)])]
    [] p.k = "Vector" ->
         [k |-> "Async.Vector",
          phase |-> PhaseA([f |-> Async_read_pattern(p.len, reader), elem |-> p.elem])]

ReadFixed_poll(self) ==
  With(Async_ReadExact_poll(self.read), LAMBDA p :
    LET me == [self EXCEPT !.read = p.self]
    IN IF p.res.k = "Ready"
       THEN [self |-> me,
             res |-> Ready([r |-> p.res.item.r, v |-> Fixed_convert(p.res.item.b.bytes)])]
       ELSE [self |-> me, res |-> p.res])

\* The future of Str::read_pattern that asks for one byte more than the
\* prefix says.
RECURSIVE Async_Str_poll_OneMore(_)
Async_Str_poll_OneMore(self) ==
  LET ph == self.phase
      taken == [self EXCEPT !.phase = Polled]
  IN CASE ph.k = "A" ->
            With(PollFut(ph.v.f), LAMBDA p :
               CASE p.res.k = "Ready" ->
                      Async_Str_poll_OneMore([self EXCEPT !.phase =
                          PhaseB([f |-> Async_async_read_exact(p.res.item.r,
                                           Buf(Zeros(AsUsize(p.res.item.v) + 1)))])])
                 [] p.res.k = "NotReady" ->
                      [self |-> [self EXCEPT !.phase = PhaseA([f |-> p.self])], res |-> NotReady]
                 [] OTHER -> [self |-> taken, res |-> p.res])
       [] ph.k = "B" ->
            With(Async_ReadExact_poll(ph.v.f), LAMBDA p :
               CASE p.res.k = "Ready" ->
                      LET s == from_utf8(p.res.item.b.bytes)
                      IN [self |-> taken,
                          res |-> IF s.ok THEN Ready([r |-> p.res.item.r, v |-> s.v])
                                  ELSE IoErr([kind |-> "Other", from |-> "Invalid UTF-8"])]
                 [] p.res.k = "NotReady" ->
                      [self |-> [self EXCEPT !.phase = PhaseB([f |-> p.self])], res |-> NotReady]
                 [] OTHER -> [self |-> taken, res |-> p.res])
       [] OTHER -> [self |-> self, res |-> Panic("cannot poll a chained future twice")]

\* The future of Str::read_pattern: the prefix, and_then that many bytes,
\* and_then String::from_utf8 of them. A future made by and_then is polled
\* as soon as it is made.
RECURSIVE Async_Str_poll(_)
Async_Str_poll(self) ==
  LET ph == self.phase
      taken == [self EXCEPT !.phase = Polled]
  IN CASE ph.k = "A" ->
            With(PollFut(ph.v.f), LAMBDA p :
               CASE p.res.k = "Ready" ->
                      Async_Str_poll([self EXCEPT !.phase =
                          PhaseB([f |-> Async_async_read_exact(p.res.item.r,
                                           Buf(Zeros(AsUsize(p.res.item.v))))])])
                 [] p.res.k = "NotReady" ->
                      [self |-> [self EXCEPT !.phase = PhaseA([f |-> p.self])], res |-> NotReady]
                 [] OTHER -> [self |-> taken, res |-> p.res])
       [] ph.k = "B" ->
            With(Async_ReadExact_poll(ph.v.f), LAMBDA p :
               CASE p.res.k = "Ready" ->
                      LET s == from_utf8(p.res.item.b.bytes)
                      IN [self |-> taken,
                          res |-> IF s.ok THEN Ready([r |-> p.res.item.r, v |-> s.v])
                                  ELSE IoErr([kind |-> "Other", from |-> "Invalid UTF-8"])]
                 [] p.res.k = "NotReady" ->
                      [self |-> [self EXCEPT !.phase = PhaseB([f |-> p.self])], res |-> NotReady]
                 [] OTHER -> [self |-> taken, res |-> p.res])
       [] OTHER -> [self |-> self, res |-> Panic("cannot poll a chained future twice")]

\* ReadVec::new. The field capacity is the capacity() of the Vec in vec:
\* Vec::with_capacity(size) has room for size elements, and for elements of
\* no size (the output of the pattern ()) a Vec's capacity is usize::MAX.
ReadVec_new(reader, size, pattern) ==
  IF size = 0
  THEN [k |-> "Async.ReadVec", state |-> Err(Some(reader)), pattern |-> pattern,
        vec |-> <<>>, capacity |-> 0]
  ELSE [k |-> "Async.ReadVec", state |-> Ok(Async_read_pattern(pattern, reader)),
        pattern |-> pattern, vec |-> <<>>,
        capacity |-> IF pattern.k = "Unit" THEN UsizeMax ELSE size]

RECURSIVE ReadVec_poll(_)
ReadVec_poll(self) ==
  LET st == self.state
      taken == [self EXCEPT !.state = Err(None)]
  IN CASE st.ok ->
            With(PollFut(st.v), LAMBDA p :
               CASE p.res.k = "Ready" ->
                      LET vec2 == Append(self.vec, p.res.item.v)
                      IN ReadVec_poll([self EXCEPT
                           !.vec = vec2,
                           !.state = IF Len(vec2) = self.capacity
                                     THEN Err(Some(p.res.item.r))
                                     ELSE Ok(Async_read_pattern(self.pattern, p.res.item.r))])
                 [] p.res.k = "NotReady" ->
                      [self |-> [self EXCEPT !.state = Ok(p.self)], res |-> NotReady]
                 [] OTHER -> [self |-> taken, res |-> p.res])
       [] st.e.k = "Some" ->
            [self |-> [taken EXCEPT !.vec = <<>>],
             res |-> Ready([r |-> st.e.v, v |-> self.vec])]
       [] OTHER -> [self |-> self, res |-> Panic("Cannot poll ReadVec twice")]

\* The future of Vector::read_pattern: the prefix, and_then a ReadVec.
RECURSIVE Async_Vector_poll(_)
Async_Vector_poll(self) ==
  LET ph == self.phase
      taken == [self EXCEPT !.phase = Polled]
  IN CASE ph.k = "A" ->
            With(PollFut(ph.v.f), LAMBDA p :
               CASE p.res.k = "Ready" ->
                      Async_Vector_poll([self EXCEPT !.phase =
                          PhaseB([f |-> ReadVec_new(p.res.item.r, AsUsize(p.res.item.v),
                                                    ph.v.elem)])])
                 [] p.res.k = "NotReady" ->
                      [self |-> [self EXCEPT !.phase =
                                    PhaseA([f |-> p.self, elem |-> ph.v.elem])],
                       res |-> NotReady]
                 [] OTHER -> [self |-> taken, res |-> p.res])
       [] ph.k = "B" ->
            With(ReadVec_poll(ph.v.f), LAMBDA p :
               IF p.res.k = "NotReady"
               THEN [self |-> [self EXCEPT !.phase = PhaseB([f |-> p.self])], res |-> NotReady]
               ELSE [self |-> taken, res |-> p.res])
       [] OTHER -> [self |-> self, res |-> Panic("cannot poll a chained future twice")]

\* Future::poll, dispatched on the concrete future type.
PollFut(f) ==
  CASE f.k = "ReadBytes" -> ReadBytes_poll(f)
    [] f.k = "ReadNonEmpty" -> ReadNonEmpty_poll(f)
    [] f.k = "ReadExact" -> ReadExact_poll(f)
    [] f.k = "WriteBytes" -> WriteBytes_poll(f)
    [] f.k = "WriteAll" -> WriteAll_poll(f)
    [] f.k = "IoRead.ReadExact" -> IoRead_ReadExact_poll(f)
    [] f.k = "Async.Read" -> Async_Read_poll(f)
    [] f.k = "Async.ReadExact" -> Async_ReadExact_poll(f)
    [] f.k = "Async.Write" -> Async_Write_poll(f)
    [] f.k = "Async.WriteAll" -> Async_WriteAll_poll(f)
    [] f.k = "Read2.Read" -> Read2_Read_poll(f)
    [] f.k = "Read2.ReadExact" -> Read2_ReadExact_poll(f)
    [] f.k = "Read2.ReadU8" -> Read2_ReadU8_poll(f)
    [] f.k = "Read2.ReadTuple2" -> Read2_ReadTuple2_poll(f)
    [] f.k = "ReadBuf" -> ReadBuf_poll(f)
    [] f.k = "MatchChain" -> MatchChain_poll(f)
    [] f.k = "MatchTuple3" -> MatchTuple3_poll(f)
    [] f.k = "Branch" -> Branch_poll(f)
    [] f.k = "MatchAndThen" -> MatchAndThen_poll(f)
    [] f.k = "MatchThen" -> MatchThen_poll(f)
    [] f.k = "MatchOrElse" -> MatchOrElse_poll(f)
    [] f.k = "MatchIterFold" -> MatchIterFold_poll(f)
    [] f.k = "MatchOption" -> MatchOption_poll(f)
    [] f.k = "Done" -> Done_poll(f)
    [] f.k = "ReadLine" -> ReadLine_poll(f)
    [] f.k = "ReadEos" -> ReadEos_poll(f)
    [] f.k = "ReadString" -> ReadString_poll(f)
    [] f.k = "ReadUntil" -> ReadUntil_poll(f)
    [] f.k = "MatchOr" -> MatchOr_poll(f)
    [] f.k = "MatchMap" -> MatchMap_poll(f)
    [] f.k = "WriteBuf" -> WriteBuf_poll(f)
    [] f.k = "WriteFixnum" -> WriteFixnum_poll(f)
    [] f.k = "Async.ReadFixed" -> ReadFixed_poll(f)
    [] f.k = "Async.Str" -> Async_Str_poll(f)
    [] f.k = "Async.Vector" -> Async_Vector_poll(f)
    [] f.k = "Async.ReadVec" -> ReadVec_poll(f)

\* ------------------------------ ReadStream of src/io/read/mod.rs ("ioread")
\* What a poll of the stream of patterns S gives next: a pattern (a buffer to
\* fill), an error, or NotReady for once; after the last item, the end.
ItemOk(p) == [k |-> "Ok", p |-> p]
ItemErr == [k |-> "Err"]
ItemPending == [k |-> "Pending"]

async_read_stream(r, s) == [k |-> "ReadStream", phase |-> PhaseA([r |-> r, s |-> s])]

\* ReadStream::poll that gives every pattern the reader as it was at first.
RECURSIVE ReadStream_poll_Restart(_)
ReadStream_poll_Restart(self) ==
  CASE self.phase.k = "A" ->
         LET r == self.phase.v.r
             s == self.phase.v.s
         IN CASE s = <<>> -> [self |-> [self EXCEPT !.phase = Polled], res |-> Ready(None)]
              [] Head(s).k = "Err" ->
                   [self |-> [self EXCEPT !.phase = Polled],
                    res |-> AsyncError_new([r |-> r], CallerError)]
              [] Head(s).k = "Pending" ->
                   [self |-> [self EXCEPT !.phase = PhaseA([r |-> r, s |-> Tail(s)])],
                    res |-> NotReady]
              [] OTHER ->
                   ReadStream_poll_Restart(
                     [self EXCEPT !.phase =
                        PhaseB([f |-> IoRead_async_read_exact([r EXCEPT !.pos = 0], Head(s).p),
                                s |-> Tail(s)])])
    [] self.phase.k = "B" ->
         With(IoRead_ReadExact_poll(self.phase.v.f), LAMBDA q :
           CASE q.res.k = "Ready" ->
                  [self |-> [self EXCEPT !.phase = PhaseA([r |-> q.res.item.r, s |-> self.phase.v.s])],
                   res |-> Ready(Some(q.res.item.b))]
             [] q.res.k = "NotReady" ->
                  [self |-> [self EXCEPT !.phase = PhaseB([f |-> q.self, s |-> self.phase.v.s])],
                   res |-> NotReady]
             [] q.res.k = "Err" ->
                  [self |-> [self EXCEPT !.phase = Polled],
                   res |-> AsyncError_new([r |-> q.res.state.r], q.res.error)]
             [] OTHER -> [self |-> [self EXCEPT !.phase = Polled], res |-> q.res])
    [] OTHER -> [self |-> self, res |-> Panic("Cannot poll ReadStream which has been finished")]

\* Phase A polls the stream of patterns and binds the pattern it gives to the
\* reader; phase B polls the read of that pattern (ReadBuf over ReadExact,
\* which drops the buffer from the error) and, when it is done, goes back to
\* phase A with the reader the read hands back.
\* WriteStream::poll of src/io/write/mod.rs is the same code over
\* lossless_write_to.
RECURSIVE ReadStream_poll(_)
ReadStream_poll(self) ==
  CASE self.phase.k = "A" ->
         LET r == self.phase.v.r
             s == self.phase.v.s
         IN CASE s = <<>> -> [self |-> [self EXCEPT !.phase = Polled], res |-> Ready(None)]
              [] Head(s).k = "Err" ->
                   [self |-> [self EXCEPT !.phase = Polled],
                    res |-> AsyncError_new([r |-> r], CallerError)]
              [] Head(s).k = "Pending" ->
                   [self |-> [self EXCEPT !.phase = PhaseA([r |-> r, s |-> Tail(s)])],
                    res |-> NotReady]
              [] OTHER ->
                   ReadStream_poll(
                     [self EXCEPT !.phase =
                        PhaseB([f |-> IoRead_async_read_exact(r, Head(s).p), s |-> Tail(s)])])
    [] self.phase.k = "B" ->
         With(IoRead_ReadExact_poll(self.phase.v.f), LAMBDA q :
           CASE q.res.k = "Ready" ->
                  [self |-> [self EXCEPT !.phase = PhaseA([r |-> q.res.item.r, s |-> self.phase.v.s])],
                   res |-> Ready(Some(q.res.item.b))]
             [] q.res.k = "NotReady" ->
                  [self |-> [self EXCEPT !.phase = PhaseB([f |-> q.self, s |-> self.phase.v.s])],
                   res |-> NotReady]
             [] q.res.k = "Err" ->
                  [self |-> [self EXCEPT !.phase = Polled],
                   res |-> AsyncError_new([r |-> q.res.state.r], q.res.error)]
             [] OTHER -> [self |-> [self EXCEPT !.phase = Polled], res |-> q.res])
    [] OTHER -> [self |-> self, res |-> Panic("Cannot poll ReadStream which has been finished")]

\* ------------------------------------------------------- src/future.rs
\* futures::future::Either, A((x, b)) or B((a, x)): the value or error of the
\* future that decided, x, with the other future.
EitherA(x, b) == [k |-> "A", x |-> x, b |-> b]
EitherB(a, x) == [k |-> "B", a |-> a, x |-> x]

\* Err(e) of a future whose error carries no stream of its own.
SelectErr(e) == [k |-> "Err", error |-> e]

select_either(a, b) == [k |-> "SelectEither", ab |-> Some(<<a, b>>)]

\* SelectEither::poll that polls b before a.
SelectEither_poll_BFirst(self) ==
  IF self.ab.k = "None" THEN [self |-> self, res |-> Panic("Cannot poll SelectEither twice")]
  ELSE With(PollFut(self.ab.v[2]), LAMBDA pb :
       CASE pb.res.k = "Err" ->
              [self |-> [self EXCEPT !.ab = None],
               res |-> SelectErr(EitherB(self.ab.v[1], pb.res))]
         [] pb.res.k = "Ready" ->
              [self |-> [self EXCEPT !.ab = None],
               res |-> Ready(EitherB(self.ab.v[1], pb.res.item))]
         [] pb.res.k = "Panic" -> [self |-> [self EXCEPT !.ab = None], res |-> pb.res]
         [] OTHER ->
              With(PollFut(self.ab.v[1]), LAMBDA pa :
              CASE pa.res.k = "Err" ->
                     [self |-> [self EXCEPT !.ab = None],
                      res |-> SelectErr(EitherA(pa.res, pb.self))]
                [] pa.res.k = "Ready" ->
                     [self |-> [self EXCEPT !.ab = None],
                      res |-> Ready(EitherA(pa.res.item, pb.self))]
                [] pa.res.k = "Panic" -> [self |-> [self EXCEPT !.ab = None], res |-> pa.res]
                [] OTHER ->
                     [self |-> [self EXCEPT !.ab = Some(<<pa.self, pb.self>>)],
                      res |-> NotReady]))

SelectEither_poll(self) ==
  IF self.ab.k = "None" THEN [self |-> self, res |-> Panic("Cannot poll SelectEither twice")]
  ELSE With(PollFut(self.ab.v[1]), LAMBDA pa :
       CASE pa.res.k = "Err" ->
              [self |-> [self EXCEPT !.ab = None],
               res |-> SelectErr(EitherA(pa.res, self.ab.v[2]))]
         [] pa.res.k = "Ready" ->
              [self |-> [self EXCEPT !.ab = None],
               res |-> Ready(EitherA(pa.res.item, self.ab.v[2]))]
         [] pa.res.k = "Panic" -> [self |-> [self EXCEPT !.ab = None], res |-> pa.res]
         [] OTHER ->
              With(PollFut(self.ab.v[2]), LAMBDA pb :
              CASE pb.res.k = "Err" ->
                     [self |-> [self EXCEPT !.ab = None],
                      res |-> SelectErr(EitherB(pa.self, pb.res))]
                [] pb.res.k = "Ready" ->
                     [self |-> [self EXCEPT !.ab = None],
                      res |-> Ready(EitherB(pa.self, pb.res.item))]
                [] pb.res.k = "Panic" -> [self |-> [self EXCEPT !.ab = None], res |-> pb.res]
                [] OTHER ->
                     [self |-> [self EXCEPT !.ab = Some(<<pa.self, pb.self>>)],
                      res |-> NotReady]))

\* The stream inside a poll result, if the result carries one.
ResStream(res) ==
  CASE res.k = "Ready" -> Some(res.item.r)
    [] res.k = "Err" -> IF "state" \in DOMAIN res THEN Some(res.state.r) ELSE None
    [] OTHER -> None

\* ------------------------------------------------------------ the caller
Versions == {"io", "ioread", "async", "read2"}

\* Streams the caller starts with: a reader with some content and no room
\* to write, or a writer with some capacity and nothing to read.
InitStreams ==
  {s \in Streams : s.cap = 0 \/ s.data = <<>>}

WBytes(n) == [i \in 1..n |-> i]

NoPat == Buf(<<>>)

Patterns ==
  {Buf(Zeros(n)) : n \in 0..2}
  \cup {Chain(Buf(Zeros(a)), Buf(Zeros(b))) : a, b \in 1..2}
  \cup {Tuple3(Buf(Zeros(1)), Buf(Zeros(1)), Buf(Zeros(1)))}
  \cup {Branch(t, Buf(Zeros(2))) : t \in {"A", "B"}}

\* Streams of lines: readers whose content may hold the newline byte.
LineBytes == {1, NewLine}

LineStreams ==
  [data : SeqsUpTo(LineBytes, MaxData), pos : {0}, sink : {<<>>}, cap : {0},
   script : Scripts, calls : {0}, wbs : {0}]

\* The buffer sizes <<min_buffer_size, max_buffer_size>> a caller gives to until.
UntilSizes == {<<1, 1>>, <<1, 2>>, <<1, 3>>, <<2, 2>>, <<2, 3>>}

\* The patterns a caller builds from the combinators, with closures named
\* as in Call and Fold.
Combinators ==
  {Line, Unit, NoneP, SomeP(Buf(Zeros(1))), OkP(<<7>>), ErrP(CallerError)}
  \cup {AndThen(Buf(Zeros(1)), f) : f \in {"ReadLen", "Report"}}
  \cup {Then(Buf(Zeros(n)), f) : n \in 1..2, f \in {"Report", "ReadOne"}}
  \cup {OrElse(Buf(Zeros(2)), f) : f \in {"Report", "ReadOne", "Fail"}}
  \cup {IterFold(ps, "Count", 0) : ps \in {<<>>, <<Unit, Unit, Unit>>}}
  \cup {IterFold(<<Buf(Zeros(1)), Buf(Zeros(1)), Buf(Zeros(1))>>, "Digits", 0)}
  \cup {Until(f, sz[1], sz[2]) : f \in {"Never", "HasNewline"}, sz \in UntilSizes}
  \cup {Chain(Until("HasNewline", 1, 4), Until("HasNewline", 1, 4))}
  \cup {Eos, Chain(Buf(Zeros(1)), Eos), Or(Buf(Zeros(2)), Buf(Zeros(1)))}

\* Streams of text: readers whose content may hold a byte that is not UTF-8.
TextBytes == {1, NotUtf8}

TextStreams ==
  [data : SeqsUpTo(TextBytes, MaxData), pos : {0}, sink : {<<>>}, cap : {0},
   script : Scripts, calls : {0}, wbs : {0}]

\* The patterns that give a String.
Strings == {Line} \cup {StringP(Zeros(n)) : n \in 1..2}

\* Streams of numbers: readers of a few bytes, among them bytes with the
\* high bit set, readers of six bytes, and writers with room for 0, 3 or 7
\* bytes; each answers its first call as told and all the others in full.
FixStreams ==
  [data : SeqsUpTo({0, 1, 255}, MaxData) \cup {<<0, 0, 1, 2, 0, 0>>, WBytes(6)},
   pos : {0}, sink : {<<>>}, cap : {0}, script : SeqsUpTo(Responses, 1), calls : {0}, wbs : {0}]
  \cup [data : {<<>>}, pos : {0}, sink : {<<>>}, cap : {3, 7},
        script : SeqsUpTo(Responses, 1), calls : {0}, wbs : {0}]

\* The patterns read: every integer pattern of 1 to 3 bytes in either byte
\* order, and the tuple (U8, BE<U16>, LE<U24>).
ReadFixnums ==
  {Fixnum(n, s, e) : n \in 1..3, s \in BOOLEAN, e \in {"BE", "LE"}}
  \cup {Tuple3(Fixnum(1, FALSE, "BE"), Fixnum(2, FALSE, "BE"), Fixnum(3, FALSE, "LE"))}

\* The patterns written: the tuple (1u8, BE(2u16), LE(3u32)) and some numbers.
WriteFixnums ==
  {Tuple3(WFixnum(1, 1, "BE"), WFixnum(2, 2, "BE"), WFixnum(3, 4, "LE"))}
  \cup {WFixnum(n, s, e) : n \in {-2, 258}, s \in 2..3, e \in {"BE", "LE"}}

Request(o, n, pat) == [op |-> o, n |-> n, pat |-> pat]

\* What the caller may ask of each iteration of the library.
Requests(v) ==
  CASE v = "io" ->
         {Request(o, n, NoPat) : o \in {"async_read", "async_read_non_empty", "async_read_exact",
                                        "async_write", "async_write_all"}, n \in 0..MaxBuf}
         \cup {Request("read_from", 0, pat) : pat \in Patterns}
    [] v = "ioread" -> {Request("async_read_exact", n, NoPat) : n \in 0..MaxBuf}
    [] v = "async" ->
         {Request(o, n, NoPat) : o \in {"async_read", "async_read_exact",
                                        "async_write", "async_write_all"}, n \in 0..MaxBuf}
    [] v = "read2" ->
         {Request(o, n, NoPat) : o \in {"read", "read_exact"}, n \in 0..MaxBuf}
         \cup {Request(o, 0, NoPat) : o \in {"U8", "Tuple2"}}
    [] v = "pattern" -> {Request("read_from", 0, pat) : pat \in Combinators}
    [] v = "string" -> {Request("read_from", 0, pat) : pat \in Strings}
    [] v = "fixnum" -> {Request("read_from", 0, pat) : pat \in ReadFixnums}
                       \cup {Request("write_into", 0, pat) : pat \in WriteFixnums}
    [] v = "prefixed" ->
         {Request("read_pattern", 0, pat) :
            pat \in {[k |-> "Str", len |-> [k |-> "U8"]]}
                    \cup {[k |-> "Vector", len |-> [k |-> "U8"], elem |-> e] :
                            e \in {[k |-> "U8"], Unit}}}

\* The future built by the entry point named in the request.
BindOp(v, q, s) ==
  CASE v = "io" /\ q.op = "async_read" -> async_read(s, Buf(Zeros(q.n)))
    [] v = "io" /\ q.op = "async_read_non_empty" -> async_read_non_empty(s, Buf(Zeros(q.n)))
    [] v = "io" /\ q.op = "async_read_exact" -> async_read_exact(s, Buf(Zeros(q.n)))
    [] v = "io" /\ q.op = "async_write" -> async_write(s, Buf(WBytes(q.n)))
    [] v = "io" /\ q.op = "async_write_all" -> async_write_all(s, Buf(WBytes(q.n)))
    [] v = "io" /\ q.op = "read_from" -> async_match(q.pat, s)
    [] v = "ioread" /\ q.op = "async_read_exact" -> IoRead_async_read_exact(s, Buf(Zeros(q.n)))
    [] v = "async" /\ q.op = "async_read" -> Async_async_read(s, Buf(Zeros(q.n)))
    [] v = "async" /\ q.op = "async_read_exact" -> Async_async_read_exact(s, Buf(Zeros(q.n)))
    [] v = "async" /\ q.op = "async_write" -> Async_async_write(s, Buf(WBytes(q.n)))
    [] v = "async" /\ q.op = "async_write_all" -> Async_async_write_all(s, Buf(WBytes(q.n)))
    [] v = "read2" /\ q.op = "read" -> Read2_read(s, Buf(Zeros(q.n)))
    [] v = "read2" /\ q.op = "read_exact" -> Read2_read_exact(s, Buf(Zeros(q.n)))
    [] v = "read2" /\ q.op = "U8" -> Read2_U8_read_pattern(s)
    [] v = "read2" /\ q.op = "Tuple2" -> Read2_Tuple2_read_pattern(s)
    [] v = "pattern" /\ q.op = "read_from" -> async_match(q.pat, s)
    [] v = "string" /\ q.op = "read_from" -> async_match(q.pat, s)
    [] v = "fixnum" -> async_match(q.pat, s)
    [] v = "prefixed" -> Async_read_pattern(q.pat, s)

NoResult == [k |-> "NoResult"]
NoRequest == Request("none", 0, NoPat)

Init ==
  /\ ver \in Versions
  /\ \E s \in InitStreams : caller = Some(s) /\ input = s
  /\ op = None
  /\ out = NoResult
  /\ pc = "idle"
  /\ req = NoRequest
  /\ lastwb = 0
  /\ lastcalls = 0
  /\ npolls = 0

\* The caller hands its stream to an operation.
Bind ==
  /\ pc = "idle"
  /\ caller.k = "Some"
  /\ \E q \in Requests(ver) :
       /\ req' = q
       /\ op' = BindOp(ver, q, caller.v)
  /\ caller' = None
  /\ pc' = "inflight"
  /\ UNCHANGED <<ver, out, input, lastwb, lastcalls, npolls>>

\* The stream as it is after a poll: still in the operation, or in the result.
StreamAfter(p) ==
  IF FutStreams(p.self) # <<>> THEN Some(FutStreams(p.self)[1]) ELSE ResStream(p.res)

\* One call of poll by the executor, with what its result hands to the caller.
PollStep ==
  \E p \in {PollFut(op)} :
  LET before == FutStreams(op)
      after == StreamAfter(p)
  IN /\ op' = p.self
     /\ out' = p.res
     /\ pc' = CASE p.res.k = "NotReady" -> "inflight"
                [] p.res.k = "Panic" -> "panicked"
                [] OTHER -> IF pc = "inflight" THEN "resolved" ELSE "repolled"
     /\ caller' = IF p.res.k \in {"Ready", "Err"} THEN ResStream(p.res) ELSE caller
     /\ lastwb' = IF before # <<>> /\ after.k = "Some" THEN after.v.wbs - before[1].wbs ELSE 0
     /\ lastcalls' = IF before # <<>> /\ after.k = "Some"
                     THEN after.v.calls - before[1].calls ELSE 0
     /\ npolls' = npolls + 1
     /\ UNCHANGED <<ver, input, req>>

\* poll on an operation that has not produced its final result yet.
Poll == pc = "inflight" /\ npolls < MaxPolls /\ PollStep

\* poll on an operation that has already produced its final result.
PollAgain == pc = "resolved" /\ PollStep

Next == Bind \/ Poll \/ PollAgain

Spec == Init /\ [][Next]_vars

\* The caller of the pattern combinators, reading from a stream of lines.
InitPattern ==
  /\ ver = "pattern"
  /\ \E s \in LineStreams : caller = Some(s) /\ input = s
  /\ op = None
  /\ out = NoResult
  /\ pc = "idle"
  /\ req = NoRequest
  /\ lastwb = 0
  /\ lastcalls = 0
  /\ npolls = 0

SpecPattern == InitPattern /\ [][Next]_vars

\* The caller of the string patterns, reading from a stream of text.
InitString ==
  /\ ver = "string"
  /\ \E s \in TextStreams : caller = Some(s) /\ input = s
  /\ op = None
  /\ out = NoResult
  /\ pc = "idle"
  /\ req = NoRequest
  /\ lastwb = 0
  /\ lastcalls = 0
  /\ npolls = 0

SpecString == InitString /\ [][Next]_vars

\* The caller of the integer patterns.
InitFixnum ==
  /\ ver = "fixnum"
  /\ \E s \in FixStreams : caller = Some(s) /\ input = s
  /\ op = None
  /\ out = NoResult
  /\ pc = "idle"
  /\ req = NoRequest
  /\ lastwb = 0
  /\ lastcalls = 0
  /\ npolls = 0

SpecFixnum == InitFixnum /\ [][Next]_vars

\* The caller of the length-prefixed patterns: a reader whose first byte is
\* the prefix, over bytes that are text (1, 2) or not (255).
InitPrefixed ==
  /\ ver = "prefixed"
  /\ \E s \in [data : SeqsUpTo({0, 1, 2, 255}, MaxData), pos : {0}, sink : {<<>>}, cap : {0},
               script : SeqsUpTo(Responses, 1), calls : {0}, wbs : {0}] :
       caller = Some(s) /\ input = s
  /\ op = None
  /\ out = NoResult
  /\ pc = "idle"
  /\ req = NoRequest
  /\ lastwb = 0
  /\ lastcalls = 0
  /\ npolls = 0

SpecPrefixed == InitPrefixed /\ [][Next]_vars

\* --------------------------------------------------- the user of a Window
\* A window made by Window::new over a buffer, before any operation on it.
InitWindow ==
  /\ ver = "window"
  /\ \E n \in 0..MaxBuf : op = Window_new_ref(Buf(WBytes(n))) /\ input = op
  /\ caller = None
  /\ out = NoResult
  /\ pc = "idle"
  /\ req = NoRequest
  /\ lastwb = 0
  /\ lastcalls = 0
  /\ npolls = 0

\* The operation o(n) on the window gave w: a window, or a panic that ends
\* the use of the window.
Applied(o, n, w) ==
  /\ pc \in {"idle", "live"}
  /\ req' = Request(o, n, NoPat)
  /\ input' = op
  /\ op' = IF w.k = "Panic" THEN op ELSE w
  /\ out' = IF w.k = "Panic" THEN w ELSE NoResult
  /\ pc' = IF w.k = "Panic" THEN "panicked" ELSE "live"
  /\ UNCHANGED <<ver, caller, lastwb, lastcalls, npolls>>

Skip == \E n \in 0..UsizeMax : \E w \in Window_skip_outcomes(op, n) : Applied("skip", n, w)

Take == \E n \in 0..UsizeMax : Applied("take", n, Window_take(op, n))

SetStart == \E n \in 0..UsizeMax : Applied("set_start", n, Window_set_start(op, n))

SetEnd == \E n \in 0..UsizeMax : Applied("set_end", n, Window_set_end(op, n))

NextWindow == Skip \/ Take \/ SetStart \/ SetEnd

SpecWindow == InitWindow /\ [][NextWindow]_vars

\* ---------------------------------------------- the user of select_either
\* Two readers of one byte each, a holding the byte 1 and b the byte 2, each
\* answering as its own script tells.
SelectStream(byte, sc) ==
  [data |-> <<byte>>, pos |-> 0, sink |-> <<>>, cap |-> 0, script |-> sc, calls |-> 0, wbs |-> 0]

\* a.select_either(b) over two reads, before the first poll.
InitSelect ==
  /\ ver = "select"
  /\ \E sa, sb \in Scripts :
       op = select_either(async_read(SelectStream(1, sa), Buf(Zeros(1))),
                          async_read(SelectStream(2, sb), Buf(Zeros(1))))
  /\ input = op
  /\ caller = None
  /\ out = NoResult
  /\ pc = "inflight"
  /\ req = NoRequest
  /\ lastwb = 0
  /\ lastcalls = 0
  /\ npolls = 0

\* One call of SelectEither::poll by the executor; input keeps the future as
\* it was before the call.
SelectStep ==
  \E p \in {SelectEither_poll(op)} :
     /\ input' = op
     /\ op' = p.self
     /\ out' = p.res
     /\ pc' = CASE p.res.k = "NotReady" -> "inflight"
                [] p.res.k = "Panic" -> "panicked"
                [] OTHER -> "resolved"
     /\ npolls' = npolls + 1
     /\ UNCHANGED <<ver, caller, req, lastwb, lastcalls>>

SelectPoll == pc = "inflight" /\ npolls < MaxPolls /\ SelectStep

SelectPollAgain == pc = "resolved" /\ SelectStep

NextSelect == SelectPoll \/ SelectPollAgain

SpecSelect == InitSelect /\ [][NextSelect]_vars

\* ------------------------------------------- the user of async_read_stream
\* The streams of patterns a caller gives: up to two items.
PatternStreams ==
  SeqsUpTo({ItemOk(Buf(Zeros(n))) : n \in 1..2} \cup {ItemErr, ItemPending}, 2)

\* reader.async_read_stream(patterns) before the first poll; the caller has
\* collected no value yet.
InitStream ==
  /\ ver = "stream"
  /\ \E n \in 0..MaxData, sc \in Scripts, s \in PatternStreams :
       op = async_read_stream([data |-> WBytes(n), pos |-> 0, sink |-> <<>>, cap |-> 0,
                               script |-> sc, calls |-> 0, wbs |-> 0], s)
  /\ input = op
  /\ caller = <<>>
  /\ out = NoResult
  /\ pc = "inflight"
  /\ req = NoRequest
  /\ lastwb = 0
  /\ lastcalls = 0
  /\ npolls = 0

\* One call of ReadStream::poll; the caller keeps the values the stream
\* yields, in the order it yields them.
StreamStep ==
  \E p \in {ReadStream_poll(op)} :
     /\ op' = p.self
     /\ out' = p.res
     /\ caller' = IF p.res.k = "Ready" /\ p.res.item.k = "Some"
                  THEN Append(caller, p.res.item.v) ELSE caller
     /\ pc' = CASE p.res.k = "Panic" -> "panicked"
                [] p.res.k = "Err" \/ (p.res.k = "Ready" /\ p.res.item.k = "None") -> "resolved"
                [] OTHER -> "inflight"
     /\ npolls' = npolls + 1
     /\ UNCHANGED <<ver, input, req, lastwb, lastcalls>>

StreamPoll == pc = "inflight" /\ npolls < MaxPolls /\ StreamStep

StreamPollAgain == pc = "resolved" /\ StreamStep

NextStream == StreamPoll \/ StreamPollAgain

SpecStream == InitStream /\ [][NextStream]_vars

\* ------------------------------------------------- reference executions
\* The executor's loop (wait()): polls until the result is not NotReady, at
\* most fuel + 1 times.
RECURSIVE Drive(_, _)
Drive(f, fuel) ==
  With(PollFut(f), LAMBDA p :
    IF p.res.k = "NotReady" /\ fuel > 0 THEN Drive(p.self, fuel - 1) ELSE p.res)

\* A stream without its bookkeeping (the answers still to come, the counters).
Bare(s) == [data |-> s.data, pos |-> s.pos, sink |-> s.sink, cap |-> s.cap]

\* What the caller can observe of a final result.
Obs(res) ==
  CASE res.k = "Ready" -> [res EXCEPT !.item.r = Bare(@)]
    [] res.k = "Err" /\ "state" \in DOMAIN res -> [res EXCEPT !.state.r = Bare(@)]
    [] OTHER -> res

\* The stream s answering as the script sc tells.
WithScript(s, sc) == [s EXCEPT !.script = sc]

\* The script sc with its would-block answers removed.
NoWouldBlock(sc) == SelectSeq(sc, LAMBDA h : h.k # "WouldBlock")

\* The stream hands over one byte per call for at least n calls.
OneBytePerRead(sc, n) ==
  /\ \A i \in 1..Len(sc) : sc[i] = [k |-> "Ok", n |-> 1]
  /\ Len(sc) + 1 >= n

\* The buffer the caller passed with the request.
GivenBuffer ==
  IF req.op \in {"async_write", "async_write_all"} THEN Buf(WBytes(req.n)) ELSE Buf(Zeros(req.n))

IsPrimitive == ver \in {"io", "async"} /\ req.op \in {"async_read", "async_write"}
IsReadExact == req.op \in {"async_read_exact", "read_exact"}

\* The stream held by the operation in flight.
Held == FutStreams(op)[1]

\* How many structures hold the stream: the caller and the operation.
Holders == (IF caller.k = "Some" THEN 1 ELSE 0) + Len(FutStreams(op))

\* The n bytes of the input that follow the first k bytes (fewer if the input
\* ends before).
Slice(k, n) == SubSeq(input.data, k + 1, Min(k + n, Len(input.data)))

\* ----------------------------------------------------------------- claims
\* C1: every operation that has ended, successfully or with an error, has
\* handed the stream it was given back to the caller.
C1_StreamHandedBack ==
  pc = "resolved" => (caller.k = "Some" /\ caller.v.data = input.data)

\* C2: when the stream answers would-block to a primitive read or write, that
\* poll returns NotReady, and the operation still holds the same stream (one
\* answer further) and the same untouched buffer, ready to repeat the call.
C2_WouldBlockSuspends ==
  [][(pc = "inflight" /\ IsPrimitive /\ Held.script # <<>> /\ Head(Held.script).k = "WouldBlock")
       => /\ out'.k = "NotReady"
          /\ pc' = "inflight"
          /\ op'.inner = Some([r |-> [Held EXCEPT !.script = Tail(@), !.calls = @ + 1,
                                                  !.wbs = @ + 1],
                               b |-> GivenBuffer])
          /\ caller' = None]_vars

C2_Witness ==
  /\ pc = "resolved" /\ IsPrimitive /\ out.k = "Ready" /\ out.item.size >= 1
  /\ caller.v.wbs >= 1 /\ caller.v.calls = caller.v.wbs + 1

\* C3: a primitive read or write whose call fails with an error other than
\* would-block fails with that error, the stream and the buffer it was given.
C3_ErrorCarriesStreamAndBuffer ==
  (pc = "resolved" /\ IsPrimitive /\ out.k = "Err")
    => /\ out.error = StreamError
       /\ "state" \in DOMAIN out
       /\ Bare(out.state.r) = Bare(input)
       /\ out.state.b = GivenBuffer

\* C4: ReadExact that meets the end of the stream with bytes still to fill
\* fails with UnexpectedEof, the stream and the buffer whose prefix holds the
\* bytes read before the end.
C4_EofCarriesStreamAndPartialBuffer ==
  (pc = "resolved" /\ req.op = "async_read_exact" /\ Len(input.data) < req.n
     /\ out.k = "Err" /\ out.error.kind = "UnexpectedEof")
    => /\ "state" \in DOMAIN out
       /\ out.state.r.pos = Len(input.data)
       /\ SubSeq(out.state.b.bytes, 1, Len(input.data)) = input.data
       /\ Len(out.state.b.bytes) = req.n

\* C5: ReadExact never takes more bytes from the stream than the buffer is
\* long, and when it succeeds it has taken exactly that many and the buffer
\* holds them in stream order.
C5_ReadExactFillsExactly ==
  (IsReadExact /\ pc \in {"inflight", "resolved"})
    => /\ \A i \in 1..Len(FutStreams(op)) : FutStreams(op)[i].pos <= req.n
       /\ (pc = "resolved" /\ caller.k = "Some") => caller.v.pos <= req.n
       /\ (pc = "resolved" /\ out.k = "Ready")
            => /\ out.item.b = Buf(Slice(0, req.n))
               /\ Len(out.item.b.bytes) = req.n
               /\ out.item.r.pos = req.n

C5_Witness ==
  /\ IsReadExact /\ pc = "resolved" /\ out.k = "Ready"
  /\ req.n >= 2 /\ Len(input.data) > req.n /\ caller.v.calls >= 2

\* C6: the final result of ReadExact on a stream that hands over one byte per
\* call is the result on the same bytes handed over all at once.
C6_SplitIndependent ==
  (IsReadExact /\ pc = "resolved" /\ OneBytePerRead(input.script, req.n))
    => Obs(out) = Obs(Drive(BindOp(ver, req, WithScript(input, <<>>)), MaxPolls))

C6_Witness ==
  /\ IsReadExact /\ pc = "resolved" /\ OneBytePerRead(input.script, req.n)
  /\ out.k = "Ready" /\ req.n >= 3 /\ caller.v.calls >= 3

\* C7: wherever the stream's would-block answers fall, the operation ends with
\* the result and the bytes transferred of the run without them.
C7_SuspensionLosesNothing ==
  pc = "resolved"
    => Obs(out) = Obs(Drive(BindOp(ver, req, WithScript(input, NoWouldBlock(input.script))),
                            MaxPolls))

C7_Witness ==
  /\ pc = "resolved" /\ ver = "io" /\ req.op \in {"async_read_exact", "read_from"}
  /\ out.k = "Ready" /\ caller.v.pos >= 2
  /\ Len(input.script) >= 2 /\ input.script[1].k = "Ok" /\ input.script[2].k = "WouldBlock"
  /\ caller.v.wbs >= 1

\* C8: a poll of an operation that has given its final result panics, gives no
\* result, and leaves the stream with the caller.  (The operations of
\* src/async/read2.rs are left out: what they do then is decided by the
\* readiness future, which is not code of the repository.)
C8_PollAfterResultPanics ==
  [][(pc = "resolved" /\ ver # "read2")
       => /\ FutStreams(op) = <<>>
          /\ out'.k = "Panic"
          /\ pc' = "panicked"
          /\ caller' = caller
          /\ FutStreams(op') = <<>>]_vars

C8_Witness ==
  /\ pc = "panicked" /\ out.k = "Panic" /\ ver = "io" /\ req.op = "read_from"
  /\ req.pat.k = "Branch" /\ caller.k = "Some"

\* C9: in a chain the stream has exactly one holder at every instant, and a
\* sub-operation works on the stream as the one before it left it: the values
\* are consecutive slices of the input, and nothing past the first slice is
\* read before the first sub-operation has given its value.
C9_OneHolderInSequence ==
  (ver = "io" /\ req.op = "read_from" /\ req.pat.k \in {"Chain", "Tuple3"})
    => /\ Holders = 1
       /\ (op.k = "MatchChain" /\ op.phase.k = "A") => Held.pos <= Len(req.pat.p0.bytes)
       /\ (op.k = "MatchChain" /\ op.phase.k = "B")
            => /\ op.phase.v.v0 = Slice(0, Len(req.pat.p0.bytes))
               /\ Held.pos >= Len(req.pat.p0.bytes)
       /\ (op.k = "MatchTuple3" /\ op.phase.k # "Polled")
            => Held.pos = CASE op.phase.k = "A" -> 0 [] op.phase.k = "B" -> 1 [] OTHER -> 2
       /\ (pc = "resolved" /\ out.k = "Ready" /\ req.pat.k = "Chain")
            => LET a == Len(req.pat.p0.bytes)
                   b == Len(req.pat.p1.bytes)
               IN out.item.v = <<Slice(0, a), Slice(a, b)>> /\ out.item.r.pos = a + b
       /\ (pc = "resolved" /\ out.k = "Ready" /\ req.pat.k = "Tuple3")
            => out.item.v = <<Slice(0, 1), Slice(1, 1), Slice(2, 1)>> /\ out.item.r.pos = 3

C9_Witness ==
  /\ ver = "io" /\ req.op = "read_from" /\ req.pat.k = "Chain"
  /\ op.k = "MatchChain" /\ op.phase.k = "B" /\ out.k = "NotReady" /\ Held.pos >= 1

\* C10: a poll returns NotReady only if the stream answered would-block
\* during that poll.
C10_NotReadyOnlyOnWouldBlock ==
  (pc = "inflight" /\ out.k = "NotReady") => lastwb >= 1

Current == IF caller.k = "Some" THEN caller.v ELSE Held

\* C12: a poll of a primitive read/write makes exactly one call of the
\* stream's read/write, and leaves the stream as that one call leaves it.
C12_PrimitiveCallsOnce ==
  (ver = "io" /\ IsPrimitive /\ npolls >= 1 /\ pc \in {"inflight", "resolved"})
    => /\ lastcalls = 1
       /\ npolls = 1 =>
            Current = (IF req.op = "async_read" THEN StreamRead(input, req.n).r
                       ELSE StreamWrite(input, WBytes(req.n)).r)

C12_Witness ==
  /\ ver = "io" /\ req.op = "async_read" /\ pc = "inflight" /\ npolls = 2
  /\ lastcalls = 1 /\ lastwb = 1 /\ Held.calls = 2

\* The stream answers no call with an error.
NoStreamError == \A i \in 1..Len(input.script) : input.script[i].k # "Err"

\* C13: WriteAll succeeds only with every byte of the buffer in the sink, and
\* when the writer takes no byte while some remain it fails with UnexpectedEof,
\* the error holding the writer and the buffer it was given.
C13_WriteAllOrEof ==
  (ver = "io" /\ req.op = "async_write_all" /\ pc = "resolved")
    => /\ out.k = "Ready" =>
            /\ out.item.r.sink = WBytes(req.n)
            /\ out.item.b = Buf(WBytes(req.n))
       /\ (out.k = "Err" /\ out.error.kind = "UnexpectedEof") =>
            /\ input.cap < req.n
            /\ Bare(out.state.r) = [Bare(input) EXCEPT !.sink = SubSeq(WBytes(req.n), 1, input.cap)]
            /\ out.state.b = Buf(WBytes(req.n))
       /\ (input.cap < req.n /\ NoStreamError) =>
            (out.k = "Err" /\ out.error.kind = "UnexpectedEof")

C13_Witness ==
  /\ ver = "io" /\ req.op = "async_write_all" /\ pc = "resolved"
  /\ out.k = "Err" /\ out.error.kind = "UnexpectedEof"
  /\ Len(out.state.r.sink) >= 1 /\ req.n = 3

\* C14: an exact read whose stream answers without errors succeeds exactly
\* when the stream holds the bytes required (none, for an empty buffer), and
\* fails with UnexpectedEof otherwise.
C14_ZeroReadOnlyWhenDone ==
  (IsReadExact /\ pc = "resolved" /\ NoStreamError)
    => IF req.n <= Len(input.data) THEN out.k = "Ready"
       ELSE out.k = "Err" /\ out.error.kind = "UnexpectedEof"

\* The pattern pat run to its end on the stream s.
RunOn(pat, s) == Drive(async_match(pat, s), MaxPolls)

\* C15: a chain ends with what its first pattern, run on the input, and then
\* its second pattern, run on the stream the first gave back, end with: the
\* pair of their values in that order, or the error of the first to fail with
\* the stream as that pattern left it; the first value is kept while the
\* second pattern is in flight.
C15_ChainInOrder ==
  (ver = "io" /\ req.op = "read_from" /\ req.pat.k = "Chain" /\ pc \in {"inflight", "resolved"})
    => With(RunOn(req.pat.p0, input), LAMBDA r0 :
         /\ (pc = "inflight" /\ op.phase.k = "B")
              => r0.k = "Ready" /\ op.phase.v.v0 = r0.item.v
         /\ (pc = "resolved" /\ r0.k # "Ready") => out = r0
         /\ (pc = "resolved" /\ r0.k = "Ready")
              => With(RunOn(req.pat.p1, r0.item.r), LAMBDA r1 :
                   IF r1.k = "Ready"
                   THEN out = Ready([r |-> r1.item.r, v |-> <<r0.item.v, r1.item.v>>])
                   ELSE out = r1))

C15_Witness ==
  /\ ver = "io" /\ req.op = "read_from" /\ req.pat.k = "Chain" /\ pc = "resolved"
  /\ out.k = "Ready" /\ out.item.v[1] # out.item.v[2]
  /\ input.script = <<[k |-> "Ok", n |-> 1], [k |-> "WouldBlock"]>>
  /\ Len(req.pat.p0.bytes) = 1 /\ npolls = 2

\* C16: and_then calls its closure once, with the value of the first pattern,
\* only when that pattern has succeeded, and ends as the closure's pattern
\* ends on the stream the first pattern gave back; when the first pattern
\* fails the closure is not called and that failure is the result.
C16_AndThenCallsOnSuccess ==
  (ver = "pattern" /\ req.pat.k = "AndThen" /\ pc # "idle")
    => With(RunOn(req.pat.p, input), LAMBDA r0 :
         /\ Len(op.calls) <= 1
         /\ (pc = "inflight" /\ op.phase.k = "A") => op.calls = <<>>
         /\ (pc = "inflight" /\ op.phase.k = "B") => r0.k = "Ready" /\ op.calls = <<r0.item.v>>
         /\ (pc = "resolved" /\ r0.k # "Ready") => op.calls = <<>> /\ out = r0
         /\ (pc = "resolved" /\ r0.k = "Ready")
              => /\ op.calls = <<r0.item.v>>
                 /\ out = RunOn(Call(req.pat.f, r0.item.v), r0.item.r))

C16_Witness ==
  /\ ver = "pattern" /\ req.pat.k = "AndThen" /\ req.pat.f = "ReadLen" /\ pc = "resolved"
  /\ out.k = "Ready" /\ op.calls = <<<<1>>>> /\ out.item.r.pos = 2 /\ out.item.r.wbs >= 1

\* C17: then calls its closure once, with Ok(value) when the first pattern
\* succeeded and with Err(error) when it failed, and ends as the closure's
\* pattern ends on the stream the first pattern handed back.
C17_ThenCallsOnBoth ==
  (ver = "pattern" /\ req.pat.k = "Then" /\ pc # "idle")
    => With(RunOn(req.pat.p, input), LAMBDA r0 :
         LET arg == IF r0.k = "Ready" THEN Ok(r0.item.v) ELSE Err(r0.error)
             s == IF r0.k = "Ready" THEN r0.item.r ELSE r0.state.r
         IN /\ Len(op.calls) <= 1
            /\ (pc = "inflight" /\ op.phase.k = "A") => op.calls = <<>>
            /\ (pc = "inflight" /\ op.phase.k = "B") => op.calls = <<arg>>
            /\ pc = "resolved" => op.calls = <<arg>> /\ out = RunOn(Call(req.pat.f, arg), s))

C17_Witness ==
  /\ ver = "pattern" /\ req.pat.k = "Then" /\ req.pat.f = "ReadOne" /\ pc = "resolved"
  /\ out.k = "Ready" /\ Len(op.calls) = 1 /\ ~op.calls[1].ok /\ out.item.r.pos >= 1

\* C18: or_else ends with the first pattern's value, its closure not called,
\* when that pattern succeeds; when it fails the closure is called once with
\* the error and the operation ends as the closure's pattern ends on the
\* stream that came back with the error.
C18_OrElseCallsOnFailure ==
  (ver = "pattern" /\ req.pat.k = "OrElse" /\ pc # "idle")
    => With(RunOn(req.pat.p, input), LAMBDA r0 :
         /\ Len(op.calls) <= 1
         /\ (pc = "inflight" /\ op.phase.k = "A") => op.calls = <<>>
         /\ (pc = "inflight" /\ op.phase.k = "B") => r0.k = "Err" /\ op.calls = <<r0.error>>
         /\ (pc = "resolved" /\ r0.k = "Ready") => op.calls = <<>> /\ out = r0
         /\ (pc = "resolved" /\ r0.k = "Err")
              => /\ op.calls = <<r0.error>>
                 /\ out = RunOn(Call(req.pat.f, r0.error), r0.state.r))

C18_Witness ==
  /\ ver = "pattern" /\ req.pat.k = "OrElse" /\ req.pat.f = "ReadOne" /\ pc = "resolved"
  /\ out.k = "Ready" /\ Len(op.calls) = 1 /\ op.calls[1].kind = "Other"
  /\ out.item.r.pos = 1 /\ out.item.r.calls = 2

\* The patterns ps run one after the other, each on the stream the one before
\* gave back, their values folded into acc in that order.
RECURSIVE FoldRun(_, _, _, _)
FoldRun(ps, fold, acc, s) ==
  IF ps = <<>> THEN Ready([r |-> s, v |-> acc])
  ELSE With(RunOn(Head(ps), s), LAMBDA r :
         IF r.k = "Ready" THEN FoldRun(Tail(ps), fold, Fold(fold, acc, r.item.v), r.item.r)
         ELSE r)

\* C19: a fold over a sequence of patterns ends with the accumulator folded
\* over their values in sequence order (3 for three unit patterns counted
\* from 0, the initial accumulator for no pattern), or with the error of the
\* first pattern that fails.
C19_IterFoldInOrder ==
  (ver = "pattern" /\ req.pat.k = "IterFold" /\ pc = "resolved")
    => /\ out = FoldRun(req.pat.ps, req.pat.fold, req.pat.acc, input)
       /\ req.pat.ps = <<>> => out = Ready([r |-> input, v |-> req.pat.acc])
       /\ req.pat.ps = <<Unit, Unit, Unit>> => out = Ready([r |-> input, v |-> 3])
       /\ (req.pat.fold = "Digits" /\ out.k = "Ready")
            => out.item.v = (input.data[1] * 16 + input.data[2]) * 16 + input.data[3]
       /\ (req.pat.fold = "Digits" /\ NoStreamError /\ out.k = "Err")
            => /\ out.error.kind = "UnexpectedEof"
               /\ out.state.r.pos = Len(input.data) /\ Len(input.data) < 3

C19_Witness ==
  /\ ver = "pattern" /\ req.pat.k = "IterFold" /\ req.pat.fold = "Digits" /\ pc = "resolved"
  /\ out.k = "Ready" /\ input.data = <<1, NewLine, 1>> /\ out.item.r.wbs >= 1

\* C20: a None pattern, a known Ok and a known Err end at the first poll, with
\* (stream, None), the value or the error, the stream being exactly the one
\* given: no call was made on it.
C20_KnownOutcomeLeavesStream ==
  (ver = "pattern" /\ req.pat.k \in {"NoneP", "OkP", "ErrP"} /\ npolls >= 1)
    => /\ pc # "inflight"
       /\ caller = Some(input)
       /\ lastcalls = 0
       /\ pc = "resolved"
            => out = CASE req.pat.k = "NoneP" -> Ready([r |-> input, v |-> None])
                       [] req.pat.k = "OkP" -> Ready([r |-> input, v |-> req.pat.v])
                       [] OTHER -> AsyncError_new([r |-> input], req.pat.e)

C20_Witness ==
  /\ ver = "pattern" /\ req.pat.k = "NoneP" /\ pc = "resolved" /\ npolls = 1
  /\ out.k = "Ready" /\ out.item.v = None
  /\ input.script # <<>> /\ input.data # <<>> /\ caller.v.calls = 0

\* How many of its scripted answers the stream s has given.
Answered(s) == Len(input.script) - Len(s.script)

\* The stream s has answered a call with an error.
ErrAnswered(s) == \E i \in 1..Answered(s) : input.script[i].k = "Err"

\* C21 as stated: but for the patterns of then and or_else, an operation whose
\* sub-operation failed ends with that error.
C21_EveryErrorPropagates ==
  (ver = "pattern" /\ pc = "resolved" /\ req.pat.k \notin {"Then", "OrElse"})
    => /\ ErrAnswered(Current) => out.k = "Err"
       /\ (req.pat.k = "Eos" /\ RunOn(Buf(Zeros(1)), input).k = "Err") => out.k = "Err"

\* C21: an error answered by the stream ends the operation at that call, the
\* error and the stream being its result, except where the caller has composed
\* the pattern with then, or_else or Or; Or drops the error of its first
\* pattern and runs the second on the stream that came with it, and Eos turns
\* the UnexpectedEof of its one-byte read into the value Ok(()).
C21_ErrorsPropagateButOrAndEos ==
  (ver = "pattern" /\ pc = "resolved")
    => /\ (req.pat.k \notin {"Then", "OrElse", "Or"} /\ ErrAnswered(Current))
            => /\ out = AsyncError_new([r |-> Current], StreamError)
               /\ input.script[Answered(Current)].k = "Err"
               /\ \A i \in 1..(Answered(Current) - 1) : input.script[i].k # "Err"
       /\ req.pat.k = "Or"
            => With(RunOn(req.pat.p0, input), LAMBDA r0 :
                 IF r0.k = "Ready" THEN out = r0 ELSE out = RunOn(req.pat.p1, r0.state.r))
       /\ req.pat.k = "Eos"
            => With(RunOn(Buf(Zeros(1)), input), LAMBDA r0 :
                 /\ (r0.k = "Err" /\ r0.error.kind = "UnexpectedEof")
                      => out = Ready([r |-> r0.state.r, v |-> Ok(<<>>)])
                 /\ (r0.k = "Err" /\ r0.error.kind # "UnexpectedEof") => out = r0)

C21_Witness ==
  /\ ver = "pattern" /\ pc = "resolved" /\ req.pat.k = "IterFold"
  /\ out.k = "Err" /\ out.error = StreamError /\ out.state.r.pos = 1
  /\ Answered(Current) = 2

\* The length of the scan buffer of the Until operation in flight.
ScanLen == Len(op.read.inner.v.b.inner.bytes)

\* C22: the scan buffer of Until is never longer than the configured
\* max_buffer_size.
C22_ScanBufferWithinMax ==
  (ver = "pattern" /\ req.pat.k = "Until" /\ pc = "inflight" /\ op.read.inner.k = "Some")
    => ScanLen <= req.pat.max_buffer_size

\* C23: when the predicate never gives a value and the stream holds at least
\* max_buffer_size bytes, Until fails with the buffer-size-limit error, having
\* read no more than max_buffer_size bytes.
C23_LimitErrorAtMax ==
  (/\ ver = "pattern" /\ req.pat.k = "Until" /\ req.pat.pred = "Never" /\ pc = "resolved"
   /\ NoStreamError /\ Len(input.data) >= req.pat.max_buffer_size)
    => /\ out.k = "Err" /\ out.error = BufferSizeLimit
       /\ out.state.r.pos <= req.pat.max_buffer_size

\* The bytes of the input up to and including its first newline.
FirstLine ==
  LET i == CHOOSE i \in 1..Len(input.data) :
             input.data[i] = NewLine /\ \A j \in 1..(i - 1) : input.data[j] # NewLine
  IN SubSeq(input.data, 1, i)

HasLine == \E i \in 1..Len(input.data) : input.data[i] = NewLine

\* C24 as stated: Until with a predicate that matches on a newline yields the
\* bytes up to and including the first newline of the stream.
C24_UntilStopsAtNewline ==
  (/\ ver = "pattern" /\ req.pat.k = "Until" /\ req.pat.pred = "HasNewline"
   /\ pc = "resolved" /\ out.k = "Ready" /\ HasLine)
    => out.item.v[1] = FirstLine

\* C24: Until yields every byte it has read, and nothing more, when the
\* predicate first gives a value: with a predicate that matches on a newline
\* they hold a newline or the stream is at its end, and read with a one-byte
\* buffer at first, <<1, '\n', 1>> gives <<1, '\n'>> and then, at the end of
\* the stream, <<1>>.
C24_UntilYieldsWhatItRead ==
  (ver = "pattern" /\ pc = "resolved" /\ out.k = "Ready")
    => /\ (req.pat.k = "Until" /\ req.pat.pred = "HasNewline")
            => /\ out.item.v[1] = Slice(0, out.item.r.pos)
               /\ out.item.v[2] = ~(\E i \in 1..out.item.r.pos : input.data[i] = NewLine)
               /\ out.item.v[2] => out.item.r.pos = Len(input.data)
       /\ (req.pat.k = "Chain" /\ req.pat.p0.k = "Until" /\ input.data = <<1, NewLine, 1>>)
            => /\ out.item.v = << <<(<<1, NewLine>>), FALSE>>, <<(<<1>>), TRUE>> >>
               /\ out.item.r.pos = 3

C24_Witness ==
  /\ ver = "pattern" /\ pc = "resolved" /\ out.k = "Ready"
  /\ req.pat.k = "Chain" /\ req.pat.p0.k = "Until" /\ input.data = <<1, NewLine, 1>>
  /\ out.item.r.wbs >= 1

\* The request is Eos, alone or after a read of one byte.
IsEos == req.pat.k = "Eos" \/ (req.pat.k = "Chain" /\ req.pat.p1.k = "Eos")

\* How many bytes the pattern before Eos takes.
BeforeEos == IF req.pat.k = "Eos" THEN 0 ELSE 1

\* The value of Eos in the result.
EosValue == IF req.pat.k = "Eos" THEN out.item.v ELSE out.item.v[2]

\* C25: Eos gives Ok(()) when the stream has no byte left and Err(byte), with
\* the first byte left, when it has one; only an error of the stream makes it
\* fail.
C25_EosOkOrFirstByte ==
  (ver = "pattern" /\ IsEos /\ pc = "resolved")
    => /\ (NoStreamError /\ Len(input.data) >= BeforeEos) => out.k = "Ready"
       /\ out.k = "Ready"
            => EosValue = (IF Len(input.data) = BeforeEos THEN Ok(<<>>)
                           ELSE Err(input.data[BeforeEos + 1]))
       /\ out.k = "Err" => (out.error = StreamError \/ Len(input.data) < BeforeEos)

C25_Witness ==
  /\ ver = "pattern" /\ req.pat.k = "Chain" /\ IsEos /\ pc = "resolved"
  /\ out.k = "Ready" /\ out.item.v[2] = Err(NewLine) /\ Len(input.data) = 3

\* C26: Eos takes from the stream the one byte it gives in Err(byte) and
\* nothing after it, and no byte at all when it gives Ok(()) or fails.
C26_EosTakesItsByteOnly ==
  (ver = "pattern" /\ IsEos /\ pc = "resolved")
    => /\ out.k = "Ready" =>
            out.item.r.pos = (IF EosValue.ok THEN BeforeEos ELSE BeforeEos + 1)
       /\ out.k = "Err" => out.state.r.pos <= BeforeEos
       /\ Bare(Current) = [Bare(input) EXCEPT !.pos = Current.pos]

C26_Witness ==
  /\ ver = "pattern" /\ req.pat.k = "Eos" /\ pc = "resolved"
  /\ out.k = "Ready" /\ ~out.item.v.ok /\ out.item.r.pos = 1 /\ Len(input.data) = 3
  /\ out.item.r.wbs >= 1

\* C27: Line gives the bytes up to and including the first newline, or all
\* the bytes left when the stream ends before a newline, having read them one
\* per call and nothing after them; at the end of the stream with no byte
\* read it fails with UnexpectedEof.
C27_LineUpToNewline ==
  (ver = "pattern" /\ req.pat.k = "Line" /\ pc = "resolved")
    => /\ ~ErrAnswered(Current)
            => IF input.data = <<>>
               THEN out = AsyncError_new([r |-> Current], UnexpectedEof("ReadLine"))
               ELSE out.k = "Ready"
       /\ out.k = "Ready"
            => /\ out.item.v = (IF HasLine THEN FirstLine ELSE input.data)
               /\ out.item.r.pos = Len(out.item.v)
               /\ out.item.r.calls - out.item.r.wbs
                    = out.item.r.pos + (IF HasLine THEN 0 ELSE 1)

C27_Witness ==
  /\ ver = "pattern" /\ req.pat.k = "Line" /\ pc = "resolved" /\ out.k = "Ready"
  /\ input.data = <<1, NewLine, 1>> /\ out.item.v = <<1, NewLine>> /\ out.item.r.wbs >= 1

\* C28: a string pattern that has read bytes that are not UTF-8 fails with an
\* error of kind InvalidData that holds the stream.
C28_NotUtf8IsInvalidData ==
  (/\ ver = "string" /\ pc = "resolved" /\ ~ErrAnswered(Current)
   /\ ~from_utf8(Slice(0, Current.pos)).ok
   /\ req.pat.k = "String" => Len(input.data) >= Len(req.pat.bytes))
    => /\ out.k = "Err" /\ out.error.kind = "InvalidData"
       /\ "state" \in DOMAIN out /\ out.state.r = Current

\* C29: after every operation on a window that did not panic, start <= end <=
\* length of the buffer, the window shows buffer[start..end], and a skip(n)
\* has moved start forward by n, not past end.
C29_WindowWithinBuffer ==
  (ver = "window" /\ pc = "live")
    => /\ op.start <= op.end /\ op.end <= Len(op.inner.bytes)
       /\ AsRef(op) = [i \in 1..(op.end - op.start) |-> op.inner.bytes[op.start + i]]
       /\ req.op = "skip" => (op.start = input.start + req.n /\ op.start <= op.end)

\* C30: two skips of n1 and n2, n1 + n2 being no more than the length of the
\* window, give the window that one skip of n1 + n2 gives; so a window that
\* was skipped to its start and then by n is the window skipped by the sum.
C30_SkipsAdd ==
  (ver = "window" /\ pc \in {"idle", "live"})
    => /\ \A n1, n2 \in 0..UsizeMax :
            n1 + n2 <= Len(AsRef(op))
              => /\ UNION {Window_skip_outcomes(w, n2) : w \in Window_skip_outcomes(op, n1)}
                      = Window_skip_outcomes(op, n1 + n2)
                 /\ Window_skip_outcomes(op, n1 + n2)
                      = {[op EXCEPT !.start = op.start + n1 + n2]}
       /\ (pc = "live" /\ req.op = "skip" /\ input.start + req.n <= input.end)
            => op \in Window_skip_outcomes([input EXCEPT !.start = 0], input.start + req.n)

C30_Witness ==
  /\ ver = "window" /\ pc = "live" /\ req.op = "skip" /\ req.n >= 1
  /\ input.start >= 1 /\ op.start = input.start + req.n /\ op.end = 3

\* C35: a take(size) that did not panic leaves the first size bytes of the
\* window it was called on: start is unchanged and end = start + size.
C35_TakeKeepsFirstBytes ==
  (ver = "window" /\ pc = "live" /\ req.op = "take")
    => /\ op.start = input.start
       /\ op.end = input.start + req.n
       /\ AsRef(op) = [i \in 1..req.n |-> AsRef(input)[i]]

\* C40: set_end(e) succeeds exactly when start <= e <= length of the buffer
\* under the window, and then end = e; for every other e it panics.
C40_SetEndWithinBuffer ==
  (ver = "window" /\ pc \in {"live", "panicked"} /\ req.op = "set_end")
    => /\ pc = "live" <=> (input.start <= req.n /\ req.n <= Len(input.inner.bytes))
       /\ pc = "live" => (op.end = req.n /\ op.start = input.start)

\* C36: a poll of a.select_either(b) polls a first; if a is ready or failed,
\* a's value or error is the result, with b as it was before the poll; if
\* not, b is polled, and if b is ready or failed its value or error is the
\* result, with a as its poll left it; if neither is, the result is NotReady
\* and both futures are kept, as their polls left them.
C36_SelectFirstAvailable ==
  (ver = "select" /\ npolls > 0 /\ pc \in {"inflight", "resolved"})
    => With(PollFut(input.ab.v[1]), LAMBDA pa :
       With(PollFut(input.ab.v[2]), LAMBDA pb :
         /\ pa.res.k = "Ready"
              => out = Ready(EitherA(pa.res.item, input.ab.v[2])) /\ op.ab = None
         /\ pa.res.k = "Err"
              => out = SelectErr(EitherA(pa.res, input.ab.v[2])) /\ op.ab = None
         /\ (pa.res.k = "NotReady" /\ pb.res.k = "Ready")
              => out = Ready(EitherB(pa.self, pb.res.item)) /\ op.ab = None
         /\ (pa.res.k = "NotReady" /\ pb.res.k = "Err")
              => out = SelectErr(EitherB(pa.self, pb.res)) /\ op.ab = None
         /\ (pa.res.k = "NotReady" /\ pb.res.k = "NotReady")
              <=> out = NotReady
         /\ out = NotReady => op.ab = Some(<<pa.self, pb.self>>)))

\* b was ready in the first poll and a in the second: a decided, and b is
\* handed back unfinished although it had been polled.
C36_Witness ==
  /\ ver = "select" /\ pc = "resolved" /\ npolls = 2
  /\ out.k = "Ready" /\ out.item.k = "A"
  /\ out.item.b.inner.k = "Some" /\ out.item.b.inner.v.r.wbs = 1

\* C38: a WriteAll over n bytes whose writer never reports would-block ends
\* after finitely many write calls: every call but the last takes at least
\* one byte, so there are at most n + 1 calls, and a writer that takes no
\* byte while some remain does not make the operation go on calling it.
C38_WriteAllEndsAfterZeroWrite ==
  (ver = "async" /\ req.op = "async_write_all" /\ pc \in {"inflight", "resolved"}
     /\ NoWouldBlock(input.script) = input.script
     /\ (caller.k = "Some" \/ FutStreams(op) # <<>>))
    => Current.calls <= req.n + 1

\* The patterns among the items of the stream of patterns s, in order.
PatternsOf(s) == SelectSeq(s, LAMBDA it : it.k = "Ok")

\* The bytes read before the i-th pattern of ps starts.
RECURSIVE Offset(_, _)
Offset(ps, i) == IF i <= 1 THEN 0 ELSE Offset(ps, i - 1) + Len(ps[i - 1].p.bytes)

\* C37: the values the stream has yielded are those of the first patterns of
\* the stream of patterns, one each and in order, the i-th being the bytes
\* that follow those of the patterns before it; between two patterns the
\* reader stands where the last one stopped; and the stream yields None only
\* when every pattern has given its value.
C37_OneValuePerPatternInOrder ==
  (ver = "stream" /\ pc \in {"inflight", "resolved"})
    => LET ps == PatternsOf(input.phase.v.s)
           data == input.phase.v.r.data
       IN /\ Len(caller) <= Len(ps)
          /\ \A i \in 1..Len(caller) :
               caller[i] = Buf(SubSeq(data, Offset(ps, i) + 1, Offset(ps, i + 1)))
          /\ op.phase.k = "A" => op.phase.v.r.pos = Offset(ps, Len(caller) + 1)
          /\ op.phase.k = "B" => FutStreams(op.phase.v.f)[1].pos >= Offset(ps, Len(caller) + 1)
          /\ (out.k = "Ready" /\ out.item.k = "None") => Len(caller) = Len(ps)

C37_Witness ==
  /\ ver = "stream" /\ pc = "resolved" /\ out.k = "Ready" /\ out.item.k = "None"
  /\ caller = <<Buf(<<1>>), Buf(<<2, 3>>)>>

\* C32: the tuple (U8, BE<U16>, LE<U24>) read from a stream of at least six
\* bytes that reports no error yields the first byte, the number of the next
\* two bytes, high byte first, and the number of the next three bytes, low
\* byte first, in this order, and leaves the stream after the six bytes.
C32_TupleReadsFieldsInOrder ==
  (ver = "fixnum" /\ req.op = "read_from" /\ req.pat.k = "Tuple3" /\ pc = "resolved"
     /\ NoStreamError)
    => LET d == input.data
       IN IF Len(d) >= 6
          THEN /\ out.k = "Ready"
               /\ out.item.v = <<d[1], d[2] * 256 + d[3], d[4] + d[5] * 256 + d[6] * 65536>>
               /\ out.item.r.pos = 6
          ELSE out.k = "Err" /\ out.error.kind = "UnexpectedEof"

C32_Witness ==
  /\ ver = "fixnum" /\ req.op = "read_from" /\ req.pat.k = "Tuple3" /\ pc = "resolved"
  /\ out.k = "Ready" /\ out.item.v = <<0, 1, 2>> /\ input.script # <<>>

\* The bytes of the tuple (1u8, BE(2u16), LE(3u32)).
TupleBytes == <<1, 0, 2, 3, 0, 0, 0>>

\* C33: while the tuple (1u8, BE(2u16), LE(3u32)) is written the sink holds a
\* prefix of the bytes 1, 0 2, 3 0 0 0, and the write succeeds, with exactly
\* these bytes in the sink, when the sink has room for them and reports no
\* error.
C33_TupleWritesFieldsInOrder ==
  (ver = "fixnum" /\ req.op = "write_into" /\ req.pat.k = "Tuple3"
     /\ pc \in {"inflight", "resolved"} /\ (caller.k = "Some" \/ FutStreams(op) # <<>>))
    => /\ Len(Current.sink) <= 7
       /\ Current.sink = SubSeq(TupleBytes, 1, Len(Current.sink))
       /\ (pc = "resolved" /\ NoStreamError /\ input.cap >= 7)
            => (out.k = "Ready" /\ out.item.r.sink = TupleBytes)
       /\ (pc = "resolved" /\ out.k = "Ready") => out.item.r.sink = TupleBytes

C33_Witness ==
  /\ ver = "fixnum" /\ req.op = "write_into" /\ req.pat.k = "Tuple3" /\ pc = "resolved"
  /\ out.k = "Ready" /\ out.item.r.sink = TupleBytes /\ input.script # <<>>

\* An empty sink with room for n bytes that takes all it is given.
FreshSink(n) ==
  [data |-> <<>>, pos |-> 0, sink |-> <<>>, cap |-> n, script |-> <<>>, calls |-> 0, wbs |-> 0]

\* C34: an integer pattern read from a stream that holds at least its width
\* in bytes and reports neither would-block nor an error gives a value, and
\* this value written with the pattern of the same width and byte order into
\* an empty sink puts there the bytes that were read.
C34_ReadThenWriteGivesBytes ==
  (ver = "fixnum" /\ req.op = "read_from" /\ req.pat.k = "Fixnum" /\ pc = "resolved"
     /\ NoStreamError /\ NoWouldBlock(input.script) = input.script
     /\ Len(input.data) >= req.pat.size)
    => /\ out.k = "Ready"
       /\ With(RunOn(WFixnum(out.item.v, req.pat.size, req.pat.endian), FreshSink(req.pat.size)),
               LAMBDA w : w.k = "Ready"
                          /\ w.item.r.sink = SubSeq(input.data, 1, req.pat.size))

C34_Witness ==
  /\ ver = "fixnum" /\ req.op = "read_from" /\ req.pat.k = "Fixnum" /\ pc = "resolved"
  /\ req.pat.size = 3 /\ req.pat.signed /\ req.pat.endian = "BE"
  /\ out.k = "Ready" /\ out.item.v = -65281

\* C31: the string pattern with a one-byte length prefix, read from a stream
\* that reports no error and holds the prefix n and then at least n bytes of
\* text, yields exactly these n bytes as the string and leaves the stream
\* right after them: nothing more is consumed.
C31_PrefixedStringReadsItsBytes ==
  (ver = "prefixed" /\ req.pat.k = "Str" /\ pc = "resolved" /\ NoStreamError
     /\ Len(input.data) >= 1 /\ Len(input.data) >= 1 + input.data[1]
     /\ from_utf8(Slice(1, input.data[1])).ok)
    => /\ out.k = "Ready"
       /\ out.item.v = Slice(1, input.data[1])
       /\ out.item.r.pos = 1 + input.data[1]

C31_Witness ==
  /\ ver = "prefixed" /\ req.pat.k = "Str" /\ pc = "resolved"
  /\ input.data = <<2, 1, 2>> /\ input.script # <<>>
  /\ out.k = "Ready" /\ out.item.v = <<1, 2>> /\ out.item.r.pos = 3

\* C39: the vector pattern with a one-byte length prefix, read from a stream
\* that reports no error and holds the prefix N, a length of the machine,
\* and then the bytes of N elements, yields a vector of exactly N elements
\* and leaves the stream right after the last of them.
C39_VectorReadsExactlyN ==
  (ver = "prefixed" /\ req.pat.k = "Vector" /\ pc = "resolved" /\ NoStreamError
     /\ Len(input.data) >= 1 /\ input.data[1] <= UsizeMax
     /\ (req.pat.elem.k = "U8" => Len(input.data) >= 1 + input.data[1]))
    => /\ out.k = "Ready"
       /\ Len(out.item.v) = input.data[1]
       /\ out.item.r.pos = 1 + (IF req.pat.elem.k = "U8" THEN input.data[1] ELSE 0)

====
